---- MODULE Spec2Model ----
(***************************************************************************)
(* Verification model of the 1code desktop client: the activity feed and   *)
(* its grouping, the activities and chats RPC routers, the tool            *)
(* notification hook, the credential lookup and the commit message         *)
(* generator.  Each subsystem has its own specification over the shared    *)
(* variables; the variables of the other subsystems stay at their initial  *)
(* values.                                                                 *)
(***************************************************************************)
EXTENDS Integers, Sequences, FiniteSets, TLC

VARIABLES
    toolActivity,   \* renderer: the in-memory activity list (toolActivityAtom)
    feedItems,      \* renderer: the items the feed last rendered
    now,            \* wall clock, in milliseconds
    dbActivities,   \* main process: the rows of table tool_activities
    dbIdSeq,        \* main process: number of row ids handed out so far
    lastRpc,        \* the last RPC call the main process served: procedure, input
    toolCallToActivityId, \* hook: toolCallId -> local activity id
    localToDbId,    \* hook: local activity id -> database id
    localIdSeq,     \* renderer: number of local activity ids handed out so far
    rpcInFlight,    \* requests sent and responses not yet delivered
    lastEvent,      \* the window event the hook handled last
    notificationMode, \* notificationModeAtom
    toastsEnabled,  \* toastNotificationsEnabledAtom
    isWindowFocused, \* renderer: the module variable isWindowFocused
    toasts,         \* the toasts shown so far
    dbProjects,     \* main process: the rows of table projects
    dbChats,        \* main process: the rows of table chats
    dbSubChats,     \* main process: the rows of table sub_chats
    chatIdSeq,      \* number of chat ids handed out so far
    subChatIdSeq,   \* number of sub-chat ids handed out so far
    chatsAwaiting,  \* chats procedures suspended at an await
    worktrees,      \* git worktrees on disk, by the chat they were made for
    credential,     \* main process: row "default" of claude_code_credentials
    encryptionAvailable, \* whether safeStorage can encrypt and decrypt
    commitPc,       \* generateCommitMessageWithSDK: where the call stands
    commitMessage,  \* generateCommitMessageWithSDK: the text collected so far
    stderrLines,    \* generateCommitMessageWithSDK: captured stderr lines
    claudeCodeToken, \* generateCommitMessageWithSDK: the token it obtained
    timeoutId,      \* the timeout timer: its state, when it was set and its delay
    aborted,        \* abortController.signal.aborted
    sdkInvoked,     \* whether query() of the agent SDK has been called
    streamCount,    \* number of stream messages received
    lastStreamMsg,  \* the stream message received last
    commitOutcome,  \* how the call settled: the returned message or the error
    pendingQuestions, \* pendingUserQuestionsAtom: whether it holds questions
    chatWaiting,    \* chatWaitingForUserAtom: whether it holds a chat
    isMuted,        \* nagMutedAtom
    prevShouldNagRef, \* useNaggingSound: prevShouldNagRef.current
    intervalRef,    \* useNaggingSound: intervalRef.current, 0 for null
    timeoutRef,     \* useNaggingSound: timeoutRef.current, 0 for null
    nagTimers,      \* the timers the hook has set and that are still live
    nagTimerSeq,    \* number of timer ids handed out so far
    nagPlayed,      \* how often the last step called soundManager.play
    lastPlayAt,     \* the time of the last call of soundManager.play, -1 for none
    nagStartedAt,   \* the time the effect last started nagging, -1 for none
    attentionSince, \* the time since which attention is needed, -1 for none
    textContexts,   \* useTextContextSelection: the state textContexts
    diffTextContexts, \* useTextContextSelection: the state diffTextContexts
    textContextsRef, \* textContextsRef.current
    diffTextContextsRef, \* diffTextContextsRef.current
    textUpdates,    \* setTextContexts calls React has not applied yet
    diffUpdates,    \* setDiffTextContexts calls React has not applied yet
    ctxIdSeq,       \* number of context ids handed out so far
    lastCtxCall     \* the last call of the hook's functions and what it did

feedVars == <<toolActivity, feedItems, now>>
dbVars == <<dbActivities, dbIdSeq, lastRpc>>
hookVars == <<toolCallToActivityId, localToDbId, localIdSeq, rpcInFlight, lastEvent,
              notificationMode, toastsEnabled, isWindowFocused, toasts>>

hookSettings == <<notificationMode, toastsEnabled, isWindowFocused>>

chatVars == <<dbProjects, dbChats, dbSubChats, chatIdSeq, subChatIdSeq,
              chatsAwaiting, worktrees>>

vars == <<toolActivity, feedItems, now, dbActivities, dbIdSeq, lastRpc,
          toolCallToActivityId, localToDbId, localIdSeq, rpcInFlight, lastEvent,
          notificationMode, toastsEnabled, isWindowFocused, toasts,
          dbProjects, dbChats, dbSubChats, chatIdSeq, subChatIdSeq,
          chatsAwaiting, worktrees, credential, encryptionAvailable,
          commitPc, claudeCodeToken, commitMessage, stderrLines, timeoutId, aborted,
          sdkInvoked, streamCount, lastStreamMsg, commitOutcome,
          pendingQuestions, chatWaiting, isMuted, prevShouldNagRef, intervalRef,
          timeoutRef, nagTimers, nagTimerSeq, nagPlayed, lastPlayAt, nagStartedAt,
          attentionSince, textContexts, diffTextContexts, textContextsRef,
          diffTextContextsRef, textUpdates, diffUpdates, ctxIdSeq, lastCtxCall>>

ctxVars == <<textContexts, diffTextContexts, textContextsRef, diffTextContextsRef,
             textUpdates, diffUpdates, ctxIdSeq, lastCtxCall>>

nagVars == <<pendingQuestions, chatWaiting, isMuted, prevShouldNagRef, intervalRef,
             timeoutRef, nagTimers, nagTimerSeq, nagPlayed, lastPlayAt, nagStartedAt,
             attentionSince>>

commitVars == <<commitPc, claudeCodeToken, commitMessage, stderrLines, timeoutId,
                aborted, sdkInvoked, streamCount, lastStreamMsg, commitOutcome>>

tokenVars == <<credential, encryptionAvailable>>

----------------------------------------------------------------------------
(* The state of each subsystem before it has done anything *)

FeedIdle ==
    /\ toolActivity = <<>>
    /\ feedItems = <<>>
    /\ now = 0

DbIdle ==
    /\ dbActivities = <<>>
    /\ dbIdSeq = 0
    /\ lastRpc = [proc |-> "none"]

HookIdle ==
    /\ toolCallToActivityId = <<>>
    /\ localToDbId = <<>>
    /\ localIdSeq = 0
    /\ rpcInFlight = {}
    /\ lastEvent = [type |-> "none"]
    /\ notificationMode = "always"
    /\ toastsEnabled = TRUE
    /\ isWindowFocused = TRUE
    /\ toasts = <<>>

ChatsIdle ==
    /\ dbProjects = {}
    /\ dbChats = <<>>
    /\ dbSubChats = <<>>
    /\ chatIdSeq = 0
    /\ subChatIdSeq = 0
    /\ chatsAwaiting = {}
    /\ worktrees = {}

TokenIdle ==
    /\ credential = [row |-> "none"]
    /\ encryptionAvailable = TRUE

CommitIdle ==
    /\ commitPc = "idle"
    /\ commitMessage = <<>>
    /\ stderrLines = <<>>
    /\ claudeCodeToken = [t |-> "undefined"]
    /\ timeoutId = [state |-> "none"]
    /\ aborted = FALSE
    /\ sdkInvoked = FALSE
    /\ streamCount = 0
    /\ lastStreamMsg = [type |-> "none"]
    /\ commitOutcome = [kind |-> "none"]

NagIdle ==
    /\ pendingQuestions = FALSE
    /\ chatWaiting = FALSE
    /\ isMuted = FALSE
    /\ prevShouldNagRef = FALSE
    /\ intervalRef = 0
    /\ timeoutRef = 0
    /\ nagTimers = {}
    /\ nagTimerSeq = 0
    /\ nagPlayed = 0
    /\ lastPlayAt = -1
    /\ nagStartedAt = -1
    /\ attentionSince = -1

CtxIdle ==
    /\ textContexts = <<>>
    /\ diffTextContexts = <<>>
    /\ textContextsRef = <<>>
    /\ diffTextContextsRef = <<>>
    /\ textUpdates = <<>>
    /\ diffUpdates = <<>>
    /\ ctxIdSeq = 0
    /\ lastCtxCall = [op |-> "none"]

----------------------------------------------------------------------------
(* Generic helpers *)

Range(s) == {s[i] : i \in 1..Len(s)}

Abs(x) == IF x < 0 THEN -x ELSE x

RECURSIVE Concat(_)
Concat(ss) == IF ss = <<>> THEN <<>> ELSE Head(ss) \o Concat(Tail(ss))

----------------------------------------------------------------------------
(* JavaScript values and strings *)

\* A string is kept run-length encoded: a sequence of runs [c, n] standing for
\* n >= 1 copies of the character c, adjacent runs having different characters.
\* Its length is counted in characters, as String.prototype.length does.
Run(c, n) == [c |-> c, n |-> n]

RECURSIVE StrLen(_)
StrLen(s) == IF s = <<>> THEN 0 ELSE Head(s).n + StrLen(Tail(s))

\* a + b
StrConcat(a, b) ==
    IF a = <<>> THEN b
    ELSE IF b = <<>> THEN a
    ELSE IF a[Len(a)].c = b[1].c
    THEN SubSeq(a, 1, Len(a) - 1) \o <<Run(b[1].c, a[Len(a)].n + b[1].n)>> \o Tail(b)
    ELSE a \o b

\* s.substring(0, k)
RECURSIVE Substring0(_, _)
Substring0(s, k) ==
    IF s = <<>> \/ k <= 0 THEN <<>>
    ELSE IF Head(s).n >= k THEN <<Run(Head(s).c, k)>>
    ELSE <<Head(s)>> \o Substring0(Tail(s), k - Head(s).n)

\* The string made of the given characters
RECURSIVE FromChars(_)
FromChars(cs) ==
    IF cs = <<>> THEN <<>>
    ELSE StrConcat(<<Run(Head(cs), 1)>>, FromChars(Tail(cs)))

JsUndefined == [t |-> "undefined"]
JsNull == [t |-> "null"]
JsString(s) == [t |-> "string", s |-> s]
\* An object with one string property, as a tool's input or output has
JsObject(key, val) == [t |-> "object", key |-> key, val |-> val]

Quote == <<Run("\"", 1)>>

\* JSON.stringify of a string without characters that need escaping, and of an
\* object {key: val}
JSONstringify(value) ==
    IF value.t = "string"
    THEN StrConcat(Quote, StrConcat(value.s, Quote))
    ELSE StrConcat(FromChars(<<"{", "\"">>),
         StrConcat(value.key,
         StrConcat(FromChars(<<"\"", ":", "\"">>),
         StrConcat(value.val, FromChars(<<"\"", "}">>)))))

----------------------------------------------------------------------------
(* activities router: table tool_activities and its procedures *)

MAX_JSON_SIZE == 50000

TruncatedSuffix ==
    FromChars(<<"\n", ".", ".", ".", " ", "(", "t", "r", "u", "n", "c", "a", "t", "e", "d", ")">>)

truncateJsonMutant(value) ==
    IF value.t \in {"undefined", "null"} THEN JsNull
    ELSE LET json == IF value.t = "string" THEN value.s ELSE JSONstringify(value) IN
         IF StrLen(json) >= MAX_JSON_SIZE
         THEN JsString(StrConcat(Substring0(json, MAX_JSON_SIZE), TruncatedSuffix))
         ELSE JsString(json)

truncateJson(value) ==
    IF value.t \in {"undefined", "null"} THEN JsNull
    ELSE LET json == IF value.t = "string" THEN value.s ELSE JSONstringify(value) IN
         IF StrLen(json) > MAX_JSON_SIZE
         THEN JsString(StrConcat(Substring0(json, MAX_JSON_SIZE), TruncatedSuffix))
         ELSE JsString(json)

\* Bounds of the router specification
MaxDbRows == 1

\* Payloads around the size limit: strings of exactly and of one more than
\* MAX_JSON_SIZE characters, a short object, and an object whose property is
\* shorter than the limit while its JSON text is one character longer
Filler(n) == <<Run("a", n)>>
CommandKey == FromChars(<<"c", "m", "d">>)
Payloads ==
    {JsUndefined, JsNull,
     JsString(Filler(MAX_JSON_SIZE)),
     JsString(StrConcat(Filler(MAX_JSON_SIZE), FromChars(<<"b">>))),
     JsObject(CommandKey, Filler(2)),
     JsObject(CommandKey, Filler(MAX_JSON_SIZE - 9))}

ActivityStates == {"running", "complete", "error"}

\* create: insert one row and return it
InsertActivity(rows, id, input) ==
    Append(rows,
           [id |-> id,
            toolName |-> input.toolName,
            chatName |-> input.chatName,
            state |-> input.state,
            input |-> truncateJson(input.input),
            output |-> JsNull,
            errorText |-> JsNull,
            isPinned |-> FALSE])

\* update: set state, output and (when given) errorText of the row with the id
UpdateActivity(rows, input) ==
    [i \in 1..Len(rows) |->
        IF rows[i].id = input.id
        THEN [rows[i] EXCEPT
                 !.state = input.state,
                 !.output = truncateJson(input.output),
                 !.errorText = IF input.errorText.t = "undefined"
                               THEN rows[i].errorText ELSE input.errorText]
        ELSE rows[i]]

RowsWithId(rows, id) == {i \in 1..Len(rows) : rows[i].id = id}

\* .returning().get(): the first affected row, undefined when there is none
ReturnedRow(rows, id) ==
    IF RowsWithId(rows, id) = {} THEN JsUndefined
    ELSE rows[CHOOSE i \in RowsWithId(rows, id) : TRUE]

ActivitiesCreate(input) ==
    /\ dbIdSeq' = dbIdSeq + 1
    /\ dbActivities' = InsertActivity(dbActivities, dbIdSeq', input)
    /\ lastRpc' = [proc |-> "create", input |-> input, id |-> dbIdSeq']

ActivitiesUpdate(input) ==
    /\ dbActivities' = UpdateActivity(dbActivities, input)
    /\ lastRpc' = [proc |-> "update", input |-> input, id |-> input.id]
    /\ UNCHANGED dbIdSeq

ActivitiesClear ==
    /\ dbActivities' = <<>>
    /\ lastRpc' = [proc |-> "clear"]
    /\ UNCHANGED dbIdSeq

RouterInit == FeedIdle /\ DbIdle /\ HookIdle /\ ChatsIdle /\ TokenIdle /\ CommitIdle /\ NagIdle /\ CtxIdle

\* The RPC surface, called with any input its zod schema accepts
RouterCreate ==
    /\ dbIdSeq < MaxDbRows
    /\ \E st \in ActivityStates, p \in Payloads :
         ActivitiesCreate([toolName |-> "Bash", chatName |-> "chatA",
                           state |-> st, input |-> p])
    /\ UNCHANGED <<feedVars, hookVars, chatVars, tokenVars, commitVars, nagVars, ctxVars>>

RouterUpdate ==
    /\ \E id \in 1..MaxDbRows, st \in {"complete", "error"}, p \in Payloads,
          e \in {JsUndefined, JsString(FromChars(<<"E">>))} :
         ActivitiesUpdate([id |-> id, state |-> st, output |-> p, errorText |-> e])
    /\ UNCHANGED <<feedVars, hookVars, chatVars, tokenVars, commitVars, nagVars, ctxVars>>

RouterClear == ActivitiesClear /\ UNCHANGED <<feedVars, hookVars, chatVars, tokenVars, commitVars, nagVars, ctxVars>>

RouterNext == RouterCreate \/ RouterUpdate \/ RouterClear

SpecRouter == RouterInit /\ [][RouterNext]_vars

----------------------------------------------------------------------------
(* use-tool-notifications: the hook that records tool activities *)

\* Bounds of the hook specification
MaxToolCalls == 2

HookToolNames == {"Read", "Bash"}
HookInputs == {JsObject(CommandKey, Filler(2))}
HookOutputs == {JsUndefined, JsString(Filler(2))}

MapSet(m, k, v) == [x \in (DOMAIN m) \cup {k} |-> IF x = k THEN v ELSE m[x]]
MapDelete(m, k) == [x \in (DOMAIN m) \ {k} |-> m[x]]

LocalId(n) == [local |-> n]

\* addToolActivityAtom: a new activity with a fresh local id joins the list
addActivity(acts, n, fields) ==
    Append(acts,
           [id |-> LocalId(n),
            toolName |-> fields.toolName,
            chatName |-> fields.chatName,
            state |-> fields.state,
            input |-> fields.input,
            output |-> JsNull,
            errorText |-> JsNull,
            isPinned |-> FALSE,
            createdAt |-> now])

\* updateToolActivityAtom: the activity with the id takes the given fields
updateActivity(acts, upd) ==
    [i \in 1..Len(acts) |->
        IF acts[i].id = upd.id
        THEN [acts[i] EXCEPT !.state = upd.state,
                             !.output = upd.output,
                             !.errorText = upd.errorText]
        ELSE acts[i]]

\* JavaScript truthiness of a payload
Truthy(v) == ~(v.t \in {"undefined", "null"} \/ (v.t = "string" /\ v.s = <<>>))

\* const state = isError ? "error" : "complete"
CompletionStateMutant(isError) == IF isError THEN "complete" ELSE "error"

CompletionState(isError) == IF isError THEN "error" ELSE "complete"

\* shouldNotify
shouldNotifyMutant == notificationMode # "never"

shouldNotify ==
    IF notificationMode = "always" THEN TRUE
    ELSE IF notificationMode = "never" THEN FALSE
    ELSE ~isWindowFocused

notifyToolStart(toolCallId, toolName, chatName, input) ==
    LET newId == LocalId(localIdSeq + 1) IN
    /\ localIdSeq' = localIdSeq + 1
    /\ toolActivity' = addActivity(toolActivity, localIdSeq + 1,
                                   [toolName |-> toolName, chatName |-> chatName,
                                    state |-> "running",
                                    input |-> JsString(JSONstringify(input))])
    /\ toolCallToActivityId' = MapSet(toolCallToActivityId, toolCallId, newId)
    /\ rpcInFlight' = rpcInFlight \cup
           {[kind |-> "createReq", localId |-> newId,
             input |-> [toolName |-> toolName, chatName |-> chatName,
                        state |-> "running", input |-> input]]}
    /\ lastEvent' = [type |-> "tool-start", toolCallId |-> toolCallId]
    /\ toasts' = IF toastsEnabled /\ shouldNotify
                 THEN Append(toasts, [toolCallId |-> toolCallId, toolName |-> toolName])
                 ELSE toasts
    /\ UNCHANGED <<hookSettings, localToDbId, feedItems, now, dbVars, chatVars, tokenVars, commitVars, nagVars, ctxVars>>

notifyToolComplete(toolCallId, isError, output, errorText) ==
    /\ lastEvent' = [type |-> "tool-complete", toolCallId |-> toolCallId,
                     isError |-> isError]
    /\ IF toolCallId \notin DOMAIN toolCallToActivityId
       THEN UNCHANGED <<toolActivity, toolCallToActivityId, localToDbId, rpcInFlight>>
       ELSE LET localActivityId == toolCallToActivityId[toolCallId]
                state == CompletionState(isError)
                outputJson == IF Truthy(output) THEN JsString(JSONstringify(output))
                              ELSE JsNull
            IN /\ toolActivity' = updateActivity(toolActivity,
                       [id |-> localActivityId, state |-> state, output |-> outputJson,
                        errorText |-> IF errorText.t = "undefined" THEN JsNull
                                      ELSE errorText])
               /\ IF localActivityId \in DOMAIN localToDbId
                  THEN /\ rpcInFlight' = rpcInFlight \cup
                              {[kind |-> "updateReq",
                                input |-> [id |-> localToDbId[localActivityId],
                                           state |-> state, output |-> output,
                                           errorText |-> errorText]]}
                       /\ localToDbId' = MapDelete(localToDbId, localActivityId)
                  ELSE UNCHANGED <<rpcInFlight, localToDbId>>
               /\ toolCallToActivityId' = MapDelete(toolCallToActivityId, toolCallId)
    /\ UNCHANGED <<hookSettings, toasts, localIdSeq, feedItems, now, dbVars, chatVars, tokenVars, commitVars, nagVars, ctxVars>>

\* The main process serves an activities.create request and answers it
ServeCreate ==
    \E req \in rpcInFlight :
        /\ req.kind = "createReq"
        /\ ActivitiesCreate(req.input)
        /\ rpcInFlight' = (rpcInFlight \ {req}) \cup
               {[kind |-> "createRes", localId |-> req.localId, dbId |-> dbIdSeq']}
        /\ UNCHANGED <<toolActivity, feedItems, now, toolCallToActivityId, localToDbId,
                       localIdSeq, lastEvent, hookSettings, toasts, chatVars, tokenVars, commitVars, nagVars, ctxVars>>

\* The .then callback of activities.create
CreateResolved ==
    \E res \in rpcInFlight :
        /\ res.kind = "createRes"
        /\ localToDbId' = MapSet(localToDbId, res.localId, res.dbId)
        /\ rpcInFlight' = rpcInFlight \ {res}
        /\ UNCHANGED <<toolActivity, feedItems, now, toolCallToActivityId, localIdSeq,
                       lastEvent, hookSettings, toasts, dbVars, chatVars, tokenVars, commitVars, nagVars, ctxVars>>

\* The main process serves an activities.update request
ServeUpdate ==
    \E req \in rpcInFlight :
        /\ req.kind = "updateReq"
        /\ ActivitiesUpdate(req.input)
        /\ rpcInFlight' = rpcInFlight \ {req}
        /\ UNCHANGED <<toolActivity, feedItems, now, toolCallToActivityId, localToDbId,
                       localIdSeq, lastEvent, hookSettings, toasts, chatVars, tokenVars, commitVars, nagVars, ctxVars>>

\* The transport dispatches tool-start with a toolCallId not used before
ToolStartEvent ==
    /\ localIdSeq < MaxToolCalls
    /\ \E t \in HookToolNames, i \in HookInputs :
         notifyToolStart(localIdSeq + 1, t, "chatA", i)

\* The transport dispatches tool-complete; the hook hears every such event
ToolCompleteEvent ==
    \E tc \in 1..MaxToolCalls, isError \in BOOLEAN, o \in HookOutputs :
        notifyToolComplete(tc, isError, o,
                           IF isError THEN JsString(FromChars(<<"E">>)) ELSE JsUndefined)

ToolsInit == FeedIdle /\ DbIdle /\ HookIdle /\ ChatsIdle /\ TokenIdle /\ CommitIdle /\ NagIdle /\ CtxIdle

ToolsNext ==
    \/ ToolStartEvent
    \/ ToolCompleteEvent
    \/ ServeCreate
    \/ CreateResolved
    \/ ServeUpdate

SpecTools == ToolsInit /\ [][ToolsNext]_vars

\* The notification settings
NotificationModes == {"always", "unfocused", "never"}
HookSubChatId == "sc1"
EventSubChatIds == {"sc1", "sc2"}

\* handleToolStart: only the events of the hook's sub-chat are handled
handleToolStart(detail) ==
    IF detail.subChatId = HookSubChatId
    THEN notifyToolStart(detail.toolCallId, detail.toolName, "chatA", detail.input)
    ELSE /\ lastEvent' = [type |-> "tool-start", toolCallId |-> detail.toolCallId,
                          ignored |-> TRUE]
         /\ UNCHANGED <<toolActivity, feedItems, now, toolCallToActivityId, localToDbId,
                        localIdSeq, rpcInFlight, hookSettings, toasts, dbVars, chatVars,
                        tokenVars, commitVars, nagVars, ctxVars>>

\* The transport dispatches tool-start for some sub-chat
ToolStartDispatched ==
    /\ localIdSeq < MaxToolCalls
    /\ \E sc \in EventSubChatIds, t \in HookToolNames, i \in HookInputs :
         handleToolStart([toolCallId |-> localIdSeq + 1, toolName |-> t,
                          input |-> i, subChatId |-> sc])

SettingsOther == <<toolActivity, feedItems, now, toolCallToActivityId, localToDbId,
                   localIdSeq, rpcInFlight, lastEvent, toasts, dbVars, chatVars,
                   tokenVars, commitVars, nagVars, ctxVars>>

\* The listeners of the window's focus and blur events
WindowFocus ==
    /\ isWindowFocused' = TRUE
    /\ UNCHANGED <<notificationMode, toastsEnabled, SettingsOther>>

WindowBlur ==
    /\ isWindowFocused' = FALSE
    /\ UNCHANGED <<notificationMode, toastsEnabled, SettingsOther>>

\* The user changes the settings
SetNotificationMode(mode) ==
    /\ notificationMode' = mode
    /\ UNCHANGED <<toastsEnabled, isWindowFocused, SettingsOther>>

SetToastsEnabled(enabled) ==
    /\ toastsEnabled' = enabled
    /\ UNCHANGED <<notificationMode, isWindowFocused, SettingsOther>>

ToastsInit ==
    /\ FeedIdle /\ DbIdle /\ ChatsIdle /\ TokenIdle /\ CommitIdle /\ NagIdle /\ CtxIdle
    /\ toolCallToActivityId = <<>>
    /\ localToDbId = <<>>
    /\ localIdSeq = 0
    /\ rpcInFlight = {}
    /\ lastEvent = [type |-> "none"]
    /\ notificationMode \in NotificationModes
    /\ toastsEnabled \in BOOLEAN
    /\ isWindowFocused \in BOOLEAN
    /\ toasts = <<>>

ToastsNext ==
    \/ ToolStartDispatched
    \/ WindowFocus
    \/ WindowBlur
    \/ \E mode \in NotificationModes : SetNotificationMode(mode)
    \/ \E enabled \in BOOLEAN : SetToastsEnabled(enabled)

SpecToasts == ToastsInit /\ [][ToastsNext]_vars

----------------------------------------------------------------------------
(* chats router: tables projects, chats and sub_chats *)

\* Bounds of the chats specification
MaxChats == 2
MaxSubChats == 3

ProjectIds == {"p1"}
RequestedProjectIds == {"p1", "p9"}

ProjectPath(projectId) == [dir |-> "project", of |-> projectId]
WorktreePath(chatId) == [dir |-> "worktree", of |-> chatId]
BranchOf(chatId) == [branch |-> chatId]

RowIds(rows) == {rows[i].id : i \in 1..Len(rows)}

BaseBranchOf(chatId) == [baseBranch |-> chatId]

\* db.update(chats).set(fields).where(...): the rows whose id is in ids take
\* the given columns
UpdateChatMutant(rows, ids, fields) ==
    [i \in 1..Len(rows) |->
        [c \in DOMAIN rows[i] |-> IF c \in DOMAIN fields THEN fields[c] ELSE rows[i][c]]]

UpdateChat(rows, ids, fields) ==
    [i \in 1..Len(rows) |->
        IF rows[i].id \in ids
        THEN [c \in DOMAIN rows[i] |->
                 IF c \in DOMAIN fields THEN fields[c] ELSE rows[i][c]]
        ELSE rows[i]]

\* The rows of a table with the given id
RowsById(rows, id) == {rows[i] : i \in {k \in 1..Len(rows) : rows[k].id = id}}

\* if (!project) throw new Error("Project not found")
ProjectFoundMutant(projectId) == TRUE

ProjectFound(projectId) == projectId \in dbProjects

\* What createWorktreeForChat can answer
WorktreeResults(chatId) ==
    {[success |-> TRUE, worktreePath |-> WorktreePath(chatId),
      branch |-> BranchOf(chatId), baseBranch |-> BaseBranchOf(chatId)],
     [success |-> TRUE, worktreePath |-> JsUndefined,
      branch |-> JsUndefined, baseBranch |-> JsUndefined],
     [success |-> FALSE, worktreePath |-> JsUndefined,
      branch |-> JsUndefined, baseBranch |-> JsUndefined]}

\* The columns chats.create stores after the worktree step, which are also
\* worktreeResult: the worktree's when it was created, the project's path otherwise
WorktreeFieldsMutant(result, projectPath) ==
    IF result.success /\ result.worktreePath # JsUndefined
    THEN [worktreePath |-> result.worktreePath, branch |-> result.branch,
          baseBranch |-> result.baseBranch]
    ELSE [worktreePath |-> JsNull]

WorktreeFields(result, projectPath) ==
    IF result.success /\ result.worktreePath # JsUndefined
    THEN [worktreePath |-> result.worktreePath, branch |-> result.branch,
          baseBranch |-> result.baseBranch]
    ELSE [worktreePath |-> projectPath]

\* The response of chats.create; createWorktree records what
\* createWorktreeForChat answered, JsUndefined when it was not called
CreateResponse(chat, subChat, fields, projectPath, result) ==
    [proc |-> "chats.create", chatId |-> chat.id, projectId |-> chat.projectId,
     worktreePath |-> IF fields.worktreePath \in {JsNull, JsUndefined}
                      THEN projectPath ELSE fields.worktreePath,
     branch |-> IF "branch" \in DOMAIN fields THEN fields.branch ELSE JsUndefined,
     baseBranch |-> IF "baseBranch" \in DOMAIN fields THEN fields.baseBranch
                    ELSE JsUndefined,
     subChats |-> <<subChat>>, createWorktree |-> result]

\* if (chat?.worktreePath && chat?.branch)
HasWorktreeMutant(chat) == chat.worktreePath # JsNull

HasWorktree(chat) == chat.worktreePath # JsNull /\ chat.branch # JsNull

\* The schema's reference sub_chats.chat_id -> chats.id: an insert is accepted
\* only for an existing chat
ForeignKeyOkMutant(chats, chatId) == TRUE

ForeignKeyOk(chats, chatId) == chatId \in RowIds(chats)

\* The schema's ON DELETE CASCADE: the sub-chats of a deleted chat go with it
CascadeDelete(subs, chatId) ==
    LET Keep(r) == r.chatId # chatId IN SelectSeq(subs, Keep)

\* db.delete(chats).where(eq(chats.id, id))
DeleteChatRow(id) ==
    LET Keep(r) == r.id # id IN
    /\ dbChats' = SelectSeq(dbChats, Keep)
    /\ dbSubChats' = CascadeDelete(dbSubChats, id)

\* chats.create up to its await (or to its end in local mode)
ChatsCreate(projectId, useWorktree) ==
    IF ~ProjectFound(projectId)
    THEN /\ lastRpc' = [proc |-> "chats.create", error |-> "Project not found",
                        projectId |-> projectId]
         /\ UNCHANGED chatVars
    ELSE LET chatId == chatIdSeq + 1
             subChatId == subChatIdSeq + 1
             chat == [id |-> chatId, projectId |-> projectId, archivedAt |-> JsNull,
                      worktreePath |-> JsNull, branch |-> JsNull,
                      baseBranch |-> JsNull]
             subChat == [id |-> subChatId, chatId |-> chatId]
             fields == [worktreePath |-> ProjectPath(projectId)]
         IN /\ chatIdSeq < MaxChats /\ subChatIdSeq < MaxSubChats
            /\ chatIdSeq' = chatId
            /\ subChatIdSeq' = subChatId
            /\ dbSubChats' = Append(dbSubChats, subChat)
            /\ IF useWorktree
               THEN /\ dbChats' = Append(dbChats, chat)
                    /\ chatsAwaiting' = chatsAwaiting \cup
                           {[proc |-> "chats.create", chatId |-> chatId,
                             projectId |-> projectId, chat |-> chat,
                             subChat |-> subChat]}
                    /\ lastRpc' = [proc |-> "chats.create", awaiting |-> chatId]
               ELSE /\ dbChats' = UpdateChat(Append(dbChats, chat), {chatId}, fields)
                    /\ chatsAwaiting' = chatsAwaiting
                    /\ lastRpc' = CreateResponse(chat, subChat, fields,
                                                 ProjectPath(projectId), JsUndefined)
            /\ UNCHANGED <<dbProjects, worktrees>>

\* chats.create after createWorktreeForChat has settled
ChatsCreateResume(call, result) ==
    /\ call \in chatsAwaiting /\ call.proc = "chats.create"
    /\ chatsAwaiting' = chatsAwaiting \ {call}
    /\ worktrees' = IF result.worktreePath # JsUndefined
                    THEN worktrees \cup {call.chatId} ELSE worktrees
    /\ LET fields == WorktreeFields(result, ProjectPath(call.projectId))
       IN /\ dbChats' = UpdateChat(dbChats, {call.chatId}, fields)
          /\ lastRpc' = CreateResponse(call.chat, call.subChat, fields,
                                       ProjectPath(call.projectId), result)
    /\ UNCHANGED <<dbProjects, dbSubChats, chatIdSeq, subChatIdSeq>>

\* chats.delete up to its await (or to its end when there is no worktree)
ChatsDelete(id) ==
    LET found == RowsById(dbChats, id) IN
    IF \E chat \in found : HasWorktree(chat) /\ chat.projectId \in dbProjects
    THEN /\ chatsAwaiting' = chatsAwaiting \cup
                {[proc |-> "chats.delete", chatId |-> id,
                  removeWorktree |-> (CHOOSE chat \in found : TRUE).worktreePath]}
         /\ lastRpc' = [proc |-> "chats.delete", awaiting |-> id]
         /\ UNCHANGED <<dbProjects, dbChats, dbSubChats, chatIdSeq, subChatIdSeq,
                        worktrees>>
    ELSE /\ DeleteChatRow(id)
         /\ lastRpc' = [proc |-> "chats.delete", chatId |-> id]
         /\ UNCHANGED <<dbProjects, chatIdSeq, subChatIdSeq, chatsAwaiting, worktrees>>

\* chats.delete after removeWorktree has settled
ChatsDeleteResume(call, success) ==
    /\ call \in chatsAwaiting /\ call.proc = "chats.delete"
    /\ chatsAwaiting' = chatsAwaiting \ {call}
    /\ worktrees' = IF success /\ call.removeWorktree.dir = "worktree"
                    THEN worktrees \ {call.removeWorktree.of} ELSE worktrees
    /\ DeleteChatRow(call.chatId)
    /\ lastRpc' = [proc |-> "chats.delete", chatId |-> call.chatId,
                   removed |-> success]
    /\ UNCHANGED <<dbProjects, chatIdSeq, subChatIdSeq>>

\* new Date()
DateNow == [date |-> now]

\* chats.archive
ChatsArchive(id) ==
    /\ dbChats' = UpdateChat(dbChats, {id}, [archivedAt |-> DateNow])
    /\ lastRpc' = [proc |-> "chats.archive", id |-> id]
    /\ UNCHANGED <<dbProjects, dbSubChats, chatIdSeq, subChatIdSeq, chatsAwaiting,
                   worktrees>>

\* chats.restore
ChatsRestore(id) ==
    /\ dbChats' = UpdateChat(dbChats, {id}, [archivedAt |-> JsNull])
    /\ lastRpc' = [proc |-> "chats.restore", id |-> id]
    /\ UNCHANGED <<dbProjects, dbSubChats, chatIdSeq, subChatIdSeq, chatsAwaiting,
                   worktrees>>

\* chats.archiveBatch
ChatsArchiveBatch(chatIds) ==
    /\ dbChats' = IF chatIds = {} THEN dbChats
                  ELSE UpdateChat(dbChats, chatIds, [archivedAt |-> DateNow])
    /\ lastRpc' = [proc |-> "chats.archiveBatch", chatIds |-> chatIds]
    /\ UNCHANGED <<dbProjects, dbSubChats, chatIdSeq, subChatIdSeq, chatsAwaiting,
                   worktrees>>

\* chats.list and chats.listArchived; projectId is JsUndefined when it is not
\* given. The order of the result, by updatedAt or archivedAt, is not modelled
ChatsList(projectId) ==
    LET Match(r) == r.archivedAt = JsNull
                      /\ (projectId # JsUndefined => r.projectId = projectId)
    IN SelectSeq(dbChats, Match)

ChatsListArchived(projectId) ==
    LET Match(r) == r.archivedAt # JsNull
                      /\ (projectId # JsUndefined => r.projectId = projectId)
    IN SelectSeq(dbChats, Match)

ChatsCreateSubChat(chatId) ==
    /\ IF ForeignKeyOk(dbChats, chatId)
       THEN /\ subChatIdSeq < MaxSubChats
            /\ subChatIdSeq' = subChatIdSeq + 1
            /\ dbSubChats' = Append(dbSubChats, [id |-> subChatIdSeq + 1,
                                                 chatId |-> chatId])
            /\ lastRpc' = [proc |-> "chats.createSubChat", id |-> subChatIdSeq + 1]
       ELSE /\ lastRpc' = [proc |-> "chats.createSubChat",
                           error |-> "FOREIGN KEY constraint failed"]
            /\ UNCHANGED <<subChatIdSeq, dbSubChats>>
    /\ UNCHANGED <<dbProjects, dbChats, chatIdSeq, chatsAwaiting, worktrees>>

ChatsDeleteSubChat(id) ==
    LET Keep(r) == r.id # id IN
    /\ dbSubChats' = SelectSeq(dbSubChats, Keep)
    /\ lastRpc' = [proc |-> "chats.deleteSubChat", id |-> id]
    /\ UNCHANGED <<dbProjects, dbChats, chatIdSeq, subChatIdSeq, chatsAwaiting,
                   worktrees>>

ChatsInit ==
    /\ FeedIdle /\ DbIdle /\ HookIdle /\ TokenIdle /\ CommitIdle /\ NagIdle /\ CtxIdle
    /\ dbProjects = ProjectIds
    /\ dbChats = <<>>
    /\ dbSubChats = <<>>
    /\ chatIdSeq = 0
    /\ subChatIdSeq = 0
    /\ chatsAwaiting = {}
    /\ worktrees = {}

ChatsOther == UNCHANGED <<feedVars, hookVars, dbActivities, dbIdSeq, tokenVars, commitVars, nagVars, ctxVars>>

ChatsNext ==
    \/ \E p \in RequestedProjectIds, w \in BOOLEAN : ChatsCreate(p, w) /\ ChatsOther
    \/ \E c \in chatsAwaiting :
          \E r \in WorktreeResults(c.chatId) : ChatsCreateResume(c, r) /\ ChatsOther
    \/ \E id \in 1..MaxChats : ChatsDelete(id) /\ ChatsOther
    \/ \E c \in chatsAwaiting, ok \in BOOLEAN : ChatsDeleteResume(c, ok) /\ ChatsOther
    \/ \E id \in 1..(MaxChats + 1) : ChatsCreateSubChat(id) /\ ChatsOther
    \/ \E id \in 1..MaxSubChats : ChatsDeleteSubChat(id) /\ ChatsOther

SpecChats == ChatsInit /\ [][ChatsNext]_vars

\* The calls that create, archive, restore and delete chats
ArchiveNext ==
    \/ \E p \in RequestedProjectIds, w \in BOOLEAN : ChatsCreate(p, w) /\ ChatsOther
    \/ \E c \in chatsAwaiting :
          \E r \in WorktreeResults(c.chatId) : ChatsCreateResume(c, r) /\ ChatsOther
    \/ \E id \in 1..MaxChats : ChatsDelete(id) /\ ChatsOther
    \/ \E c \in chatsAwaiting, ok \in BOOLEAN : ChatsDeleteResume(c, ok) /\ ChatsOther
    \/ \E id \in 1..MaxChats : ChatsArchive(id) /\ ChatsOther
    \/ \E id \in 1..MaxChats : ChatsRestore(id) /\ ChatsOther
    \/ \E ids \in {{}, 1..MaxChats} : ChatsArchiveBatch(ids) /\ ChatsOther

SpecArchive == ChatsInit /\ [][ArchiveNext]_vars

----------------------------------------------------------------------------
(* chats router: sub-chat names *)

\* Bounds of the sub-chat name specification
MaxRuns == 3

NAME_LIMIT == 25

Whitespace == {" ", "\n"}
MessageChars == {" ", "\n", "a"}
RunLengths == {1, NAME_LIMIT - 1, NAME_LIMIT, NAME_LIMIT + 1}

\* String.prototype.trim
RECURSIVE TrimStart(_)
TrimStart(s) ==
    IF s # <<>> /\ Head(s).c \in Whitespace THEN TrimStart(Tail(s)) ELSE s

RECURSIVE TrimEnd(_)
TrimEnd(s) ==
    IF s # <<>> /\ s[Len(s)].c \in Whitespace
    THEN TrimEnd(SubSeq(s, 1, Len(s) - 1)) ELSE s

StrTrim(s) == TrimEnd(TrimStart(s))

NewChat == FromChars(<<"N", "e", "w", " ", "C", "h", "a", "t">>)
Ellipsis == FromChars(<<".", ".", ".">>)

getFallbackNameMutant(userMessage) ==
    LET trimmed == StrTrim(userMessage) IN
    IF StrLen(trimmed) < NAME_LIMIT
    THEN IF trimmed # <<>> THEN trimmed ELSE NewChat
    ELSE StrConcat(Substring0(trimmed, NAME_LIMIT), Ellipsis)

getFallbackName(userMessage) ==
    LET trimmed == StrTrim(userMessage) IN
    IF StrLen(trimmed) <= NAME_LIMIT
    THEN IF trimmed # <<>> THEN trimmed ELSE NewChat
    ELSE StrConcat(Substring0(trimmed, NAME_LIMIT), Ellipsis)

\* The user messages: up to MaxRuns runs of a character
UserMessages ==
    {s \in UNION {[1..k -> [c : MessageChars, n : RunLengths]] : k \in 0..MaxRuns} :
        \A i \in 2..Len(s) : s[i].c # s[i - 1].c}

\* The mutation is called with a user message and answers with a name
ChatsGenerateSubChatName ==
    /\ lastRpc.proc = "chats.generateSubChatName.call"
    /\ lastRpc' = [proc |-> "chats.generateSubChatName",
                   userMessage |-> lastRpc.userMessage,
                   name |-> getFallbackName(lastRpc.userMessage)]
    /\ UNCHANGED <<dbActivities, dbIdSeq, feedVars, hookVars, chatVars, tokenVars, commitVars, nagVars, ctxVars>>

NamesInit ==
    /\ FeedIdle /\ HookIdle /\ ChatsIdle /\ TokenIdle /\ CommitIdle /\ NagIdle /\ CtxIdle
    /\ dbActivities = <<>>
    /\ dbIdSeq = 0
    /\ lastRpc \in {[proc |-> "chats.generateSubChatName.call", userMessage |-> msg] :
                        msg \in UserMessages}

NamesNext == ChatsGenerateSubChatName

SpecNames == NamesInit /\ [][NamesNext]_vars

----------------------------------------------------------------------------
(* claude/token.ts: the stored OAuth token *)

\* Bounds of the token specification: the stored value has up to
\* MaxTokenGroups groups of four base64 digits
MaxTokenGroups == 1

\* A base64 text is the sequence of its digits' values 0..63, Pad standing for "="
Pad == 64
Base64Digits == {16, 29, 32}

\* Buffer.from(text, "base64"): three bytes from each group of four digits,
\* fewer from a padded group
RECURSIVE Base64Decode(_)
Base64Decode(d) ==
    IF Len(d) < 2 \/ d[1] = Pad \/ d[2] = Pad THEN <<>>
    ELSE LET b1 == d[1] * 4 + d[2] \div 16 IN
         IF Len(d) < 3 \/ d[3] = Pad THEN <<b1>>
         ELSE LET b2 == (d[2] % 16) * 16 + d[3] \div 4 IN
              IF Len(d) < 4 \/ d[4] = Pad THEN <<b1, b2>>
              ELSE <<b1, b2, (d[3] % 4) * 64 + d[4]>> \o Base64Decode(SubSeq(d, 5, Len(d)))

\* buffer.toString("utf-8") of single-byte characters; a byte that is no
\* character by itself becomes U+FFFD
Utf8ToString(bytes) ==
    [i \in 1..Len(bytes) |-> IF bytes[i] < 128 THEN bytes[i] ELSE 65533]

\* safeStorage.decryptString: a ciphertext is the tag byte followed by the
\* shifted bytes of the text; anything else, or a failing OS keychain, throws
CipherTag == 118

SafeDecryptString(buffer, osFails) ==
    IF osFails \/ buffer = <<>> \/ buffer[1] # CipherTag
    THEN [threw |-> TRUE]
    ELSE [threw |-> FALSE,
          value |-> JsString(Utf8ToString([i \in 1..(Len(buffer) - 1) |->
                                              (buffer[i + 1] + 255) % 256]))]

decryptTokenMutant(encrypted, osFails) ==
    SafeDecryptString(Base64Decode(encrypted), osFails)

decryptToken(encrypted, osFails) ==
    IF ~encryptionAvailable
    THEN [threw |-> FALSE, value |-> JsString(Utf8ToString(Base64Decode(encrypted)))]
    ELSE SafeDecryptString(Base64Decode(encrypted), osFails)

\* try { ... } catch { return null }
CatchReturnNull(outcome) ==
    IF outcome.threw THEN [threw |-> FALSE, value |-> JsNull] ELSE outcome

getClaudeCodeToken(dbThrows, osFails) ==
    CatchReturnNull(
        IF dbThrows THEN [threw |-> TRUE]
        ELSE IF credential.row = "none" \/ ~Truthy(credential.oauthToken)
        THEN [threw |-> FALSE, value |-> JsNull]
        ELSE decryptToken(credential.oauthToken.s, osFails))

StoredTokens ==
    UNION {[1..(4 * g) -> Base64Digits] : g \in 0..MaxTokenGroups}
        \cup {<<a, b, Pad, Pad>> : a \in Base64Digits, b \in Base64Digits}
        \cup {<<a, b, c, Pad>> : a \in Base64Digits, b \in Base64Digits, c \in Base64Digits}

Credentials ==
    {[row |-> "none"], [row |-> "default", oauthToken |-> JsNull]}
        \cup {[row |-> "default", oauthToken |-> JsString(d)] : d \in StoredTokens}

GetClaudeCodeToken ==
    /\ \E dbThrows \in BOOLEAN, osFails \in BOOLEAN :
         lastRpc' = [proc |-> "getClaudeCodeToken", dbThrows |-> dbThrows,
                     osFails |-> osFails,
                     outcome |-> getClaudeCodeToken(dbThrows, osFails)]
    /\ UNCHANGED <<dbActivities, dbIdSeq, feedVars, hookVars, chatVars, tokenVars, commitVars, nagVars, ctxVars>>

TokenInit ==
    /\ FeedIdle /\ DbIdle /\ HookIdle /\ ChatsIdle /\ CommitIdle /\ NagIdle /\ CtxIdle
    /\ credential \in Credentials
    /\ encryptionAvailable \in BOOLEAN

TokenNext == GetClaudeCodeToken

SpecToken == TokenInit /\ [][TokenNext]_vars

----------------------------------------------------------------------------
(* git: generateCommitMessageWithSDK *)

\* Bounds of the commit-message specification
MaxStreamMsgs == 2
MaxStderrLines == 1
MaxTicks == 4
TickMs == 10000

\* The delay of the timeout timer
TIMEOUT_MS == 30000

\* A text is the sequence of its tokens: a token is one character ("\n", " ",
\* ":", "-", "*", a backtick, a quote) or a run of characters that the extraction never
\* takes apart (a word, a phrase, a scope in parentheses)
\* The backtick character, U+0060
Backtick == "<backtick>"

NonWordTokens == {" ", "\n", ":", "-", "*", Backtick, "\"", "(api)"}
QuoteTokens == {"\"", "'", Backtick}
TypeWords == {"feat", "fix", "refactor", "docs", "style", "test", "chore",
              "perf", "ci", "build", "revert"}
ScopeTokens == {"(api)"}
PreambleStarts == {"here is", "here's", "based on", "i'll help", "i need",
                   "let me", "i will", "now i", "this commit"}
ExplanationStarts == {"this commit", "the implementation", "this change"}
BulletStarts == {"-", "*"}

\* String.prototype.toLowerCase, on the tokens that have capitals
ToLowerCase(tok) ==
    CASE tok = "Here is" -> "here is"
      [] tok = "This commit" -> "this commit"
      [] tok = "The implementation" -> "the implementation"
      [] tok = "Fix" -> "fix"
      [] tok = "Implement plan" -> "implement plan"
      [] tok = "IMPLEMENT PLAN" -> "implement plan"
      [] OTHER -> tok

\* The text blocks the model's assistant messages are made of
TextBlocks ==
    { <<"Here is", " ", "fix", ":", " ", "add", "\n">>,
      <<"feat", "(api)", ":", " ", "add">>,
      <<"\n", "\n", "-", " ", "add", "\n", "*", " ", "add">>,
      <<"\n", "\n", "This commit", " ", "add">>,
      <<Backtick, "Fix", ":", " ", Backtick, "add", Backtick, Backtick>>,
      <<"*", "*", "fix", ":", "*", "*", " ", "add">>,
      <<"add", " ", "add">>,
      <<"add", " ", "fix", ":", " ", "add">>,
      <<"fix", ":", " ", "\n">>,
      <<" ", "\n">>,
      <<>> }

\* The messages the stream of the SDK delivers; a message or a content that
\* is undefined is the record NoValue
NoValue == [defined |-> FALSE]
Content(blocks) == [defined |-> TRUE, blocks |-> blocks]
Message(role, content) == [defined |-> TRUE, role |-> role, content |-> content]

StreamMessages ==
    {[type |-> "error", error |-> e] : e \in {"undefined", "overloaded"}}
        \cup {[type |-> "assistant", message |-> NoValue]}
        \cup {[type |-> "assistant", message |-> Message("assistant", c)] :
                c \in {Content(<<[type |-> "text", text |-> b]>>) : b \in TextBlocks}
                        \cup {NoValue,
                              Content(<<[type |-> "tool_use"],
                                        [type |-> "text",
                                         text |-> <<"\n", "fix", ":", " ", "add">>]>>)}}
        \cup {[type |-> "message", message |-> Message(r, c)] :
                r \in {"assistant", "user"},
                c \in {NoValue,
                       Content(<<[type |-> "text",
                                  text |-> <<"feat", "(api)", ":", " ", "add">>]>>)}}
        \cup {[type |-> "system"]}

\* What the iteration of the stream, the query or the import can throw
StreamErrors == {"Claude Code process exited with code 1"}
AbortErrorMessage == "The operation was aborted"

\* String.prototype.split("\n")
RECURSIVE SplitLines(_)
SplitLines(text) ==
    IF \A i \in 1..Len(text) : text[i] # "\n" THEN <<text>>
    ELSE LET i == CHOOSE k \in 1..Len(text) :
                      text[k] = "\n" /\ \A j \in 1..(k - 1) : text[j] # "\n"
         IN <<SubSeq(text, 1, i - 1)>> \o SplitLines(SubSeq(text, i + 1, Len(text)))

\* Array.prototype.join
RECURSIVE JoinLines(_, _)
JoinLines(lines, sep) ==
    IF lines = <<>> THEN <<>>
    ELSE IF Len(lines) = 1 THEN lines[1]
    ELSE lines[1] \o sep \o JoinLines(Tail(lines), sep)

\* String.prototype.trim, on a text of tokens
RECURSIVE TokTrimStart(_)
TokTrimStart(text) ==
    IF text # <<>> /\ Head(text) \in Whitespace THEN TokTrimStart(Tail(text)) ELSE text

RECURSIVE TokTrimEnd(_)
TokTrimEnd(text) ==
    IF text # <<>> /\ text[Len(text)] \in Whitespace
    THEN TokTrimEnd(SubSeq(text, 1, Len(text) - 1)) ELSE text

TokTrim(text) == TokTrimEnd(TokTrimStart(text))

\* lower.startsWith(p) for some p of the set
StartsWithAny(line, starts) == line # <<>> /\ ToLowerCase(Head(line)) \in starts

\* conventionalCommitRegex.test(line):
\* /\b(feat|fix|...)(\([^)]+\))?:\s*[^\n]+/i
conventionalCommitRegex(line) ==
    \E i \in 1..Len(line) :
        /\ ToLowerCase(line[i]) \in TypeWords
        /\ i = 1 \/ line[i - 1] \in NonWordTokens
        /\ LET j == IF i + 1 <= Len(line) /\ line[i + 1] \in ScopeTokens
                    THEN i + 2 ELSE i + 1
           IN /\ j < Len(line)
              /\ line[j] = ":"
              /\ \A k \in (j + 1)..Len(line) : line[k] # "\n"

\* The loop over the lines: st is the loop's variables, and done says that
\* the loop has hit a break
RECURSIVE ExtractLoop(_, _)
ExtractLoop(lines, st) ==
    IF lines = <<>> THEN st
    ELSE LET trimmed == TokTrim(Head(lines))
             rest == Tail(lines)
         IN IF ~st.headerFound
            THEN IF StartsWithAny(trimmed, PreambleStarts) \/ trimmed = <<>>
                 THEN ExtractLoop(rest, st)
                 ELSE IF conventionalCommitRegex(trimmed)
                 THEN ExtractLoop(rest, [st EXCEPT !.cleanedMessage = trimmed,
                                                   !.headerFound = TRUE])
                 ELSE ExtractLoop(rest, st)
            ELSE IF StartsWithAny(trimmed, BulletStarts)
                 THEN ExtractLoop(rest, [st EXCEPT !.bodyLines = Append(@, trimmed)])
                 ELSE IF trimmed = <<>> /\ st.bodyLines # <<>> THEN st
                 ELSE IF trimmed = <<>> THEN ExtractLoop(rest, st)
                 ELSE IF StartsWithAny(trimmed, ExplanationStarts) THEN st
                 ELSE ExtractLoop(rest, st)

\* .replace(/\*\*/g, "")
RECURSIVE RemoveBold(_)
RemoveBold(text) ==
    IF Len(text) < 2 THEN text
    ELSE IF text[1] = "*" /\ text[2] = "*" THEN RemoveBold(Tail(Tail(text)))
    ELSE <<Head(text)>> \o RemoveBold(Tail(text))

\* .replace(/^[quote, apostrophe or backtick]|[the same]$/g, "")
StripQuotes(text) ==
    LET a == IF text # <<>> /\ Head(text) \in QuoteTokens THEN Tail(text) ELSE text
    IN IF a # <<>> /\ a[Len(a)] \in QuoteTokens THEN SubSeq(a, 1, Len(a) - 1) ELSE a

\* .replace(/B([^B]+)B/g, "$1") where B is the backtick
RECURSIVE RemoveInlineCode(_)
RemoveInlineCode(text) ==
    IF text = <<>> THEN text
    ELSE IF Head(text) # Backtick THEN <<Head(text)>> \o RemoveInlineCode(Tail(text))
    ELSE LET rest == Tail(text) IN
         IF \A k \in 1..Len(rest) : rest[k] # Backtick THEN text
         ELSE LET j == CHOOSE k \in 1..Len(rest) :
                           rest[k] = Backtick /\ \A m \in 1..(k - 1) : rest[m] # Backtick
              IN IF j = 1 THEN <<Backtick>> \o RemoveInlineCode(rest)
                 ELSE SubSeq(rest, 1, j - 1) \o RemoveInlineCode(SubSeq(rest, j + 1, Len(rest)))

\* The extraction and the clean-up of the commit message from the collected text
ExtractCommitMessage(text) ==
    LET st == ExtractLoop(SplitLines(text),
                          [cleanedMessage |-> <<>>, headerFound |-> FALSE,
                           bodyLines |-> <<>>])
        combined == IF st.headerFound /\ st.bodyLines # <<>>
                    THEN st.cleanedMessage \o <<"\n", "\n">>
                             \o JoinLines(st.bodyLines, <<"\n">>)
                    ELSE st.cleanedMessage
    IN TokTrim(RemoveInlineCode(StripQuotes(RemoveBold(combined))))

\* if (!claudeCodeToken)
TokenMissingMutant(token) == token.t = "null"

TokenMissing(token) == ~Truthy(token)

\* if (!cleanedMessage)
IsEmptyMessageMutant(message) == FALSE

IsEmptyMessage(message) == message = <<>>

\* clearTimeout(timeoutId)
clearTimeoutMutant(timer) == timer

clearTimeout(timer) ==
    IF timer.state = "armed" THEN [timer EXCEPT !.state = "cleared"] ELSE timer

\* stderrOutput ? text + "\n\nProcess output:\n" + stderrOutput : text
WithProcessOutput(text) ==
    IF stderrLines # <<>>
    THEN text \o <<"\n\nProcess output:\n">> \o JoinLines([i \in 1..Len(stderrLines) |-> <<stderrLines[i]>>], <<"\n">>)
    ELSE text

NotConnectedError == <<"Claude Code not connected. Please connect in Settings.">>
EmptyMessageError == <<"Claude returned empty commit message">>

\* The text blocks of a content, concatenated
RECURSIVE CollectText(_)
CollectText(content) ==
    IF content = <<>> THEN <<>>
    ELSE (IF Head(content).type = "text" THEN Head(content).text ELSE <<>>)
             \o CollectText(Tail(content))

Deadline == timeoutId.setAt + timeoutId.delay

\* The function leaves by return or by throw, through the finally block
SettleThroughFinally(outcome) ==
    /\ commitPc' = IF outcome.kind = "return" THEN "returned" ELSE "thrown"
    /\ commitOutcome' = outcome
    /\ timeoutId' = clearTimeout(timeoutId)

\* The catch block around the iteration: the error is thrown again with a prefix
RethrowStreamError(errMessage) ==
    SettleThroughFinally([kind |-> "throw",
                          message |-> WithProcessOutput(<<"Claude Code process error: ">>
                                                            \o errMessage)])

CommitOther == <<toolActivity, feedItems, dbVars, hookVars, chatVars, tokenVars, nagVars,
                 ctxVars>>

\* The call, up to the dynamic import
CommitStart(dbThrows, osFails) ==
    /\ commitPc = "idle"
    /\ claudeCodeToken' = getClaudeCodeToken(dbThrows, osFails).value
    /\ IF TokenMissing(claudeCodeToken')
       THEN /\ commitPc' = "thrown"
            /\ commitOutcome' = [kind |-> "throw", message |-> NotConnectedError]
       ELSE /\ commitPc' = "importing"
            /\ UNCHANGED commitOutcome
    /\ UNCHANGED <<commitMessage, stderrLines, timeoutId, aborted, sdkInvoked,
                   streamCount, lastStreamMsg, now, CommitOther>>

\* The import fails: the function throws before the timer exists
ImportRejects ==
    /\ commitPc = "importing"
    /\ commitPc' = "thrown"
    /\ commitOutcome' = [kind |-> "throw", message |-> <<"Cannot find package">>]
    /\ UNCHANGED <<claudeCodeToken, commitMessage, stderrLines, timeoutId, aborted,
                   sdkInvoked, streamCount, lastStreamMsg, now, CommitOther>>

\* The import succeeds: the timer is set and query() is called
ImportResolves ==
    /\ commitPc = "importing"
    /\ stderrLines' = <<>>
    /\ aborted' = FALSE
    /\ timeoutId' = [state |-> "armed", setAt |-> now, delay |-> TIMEOUT_MS]
    /\ sdkInvoked' = TRUE
    /\ commitPc' = "querying"
    /\ UNCHANGED <<claudeCodeToken, commitMessage, streamCount, lastStreamMsg,
                   commitOutcome, now, CommitOther>>

\* await query(...) throws: the error leaves through the finally block as it is
QueryRejects(errMessage) ==
    /\ commitPc = "querying"
    /\ errMessage = AbortErrorMessage => aborted
    /\ SettleThroughFinally([kind |-> "throw", message |-> <<errMessage>>])
    /\ UNCHANGED <<claudeCodeToken, commitMessage, stderrLines, aborted, sdkInvoked,
                   streamCount, lastStreamMsg, now, CommitOther>>

QueryResolves ==
    /\ commitPc = "querying"
    /\ commitMessage' = <<>>
    /\ commitPc' = "streaming"
    /\ UNCHANGED <<claudeCodeToken, stderrLines, timeoutId, aborted, sdkInvoked,
                   streamCount, lastStreamMsg, commitOutcome, now, CommitOther>>

\* One pass of the for-await loop
StreamMessage(msg) ==
    /\ commitPc = "streaming"
    /\ streamCount < MaxStreamMsgs
    /\ streamCount' = streamCount + 1
    /\ lastStreamMsg' = [type |-> msg.type]
    /\ IF msg.type = "error"
       THEN /\ RethrowStreamError(
                   WithProcessOutput(<<"Failed to generate commit message: ",
                                       IF msg.error = "undefined"
                                       THEN "Unknown SDK error" ELSE msg.error>>))
            /\ UNCHANGED commitMessage
       ELSE IF msg.type = "assistant"
       THEN /\ commitMessage' = IF msg.message.defined /\ msg.message.content.defined
                                THEN commitMessage
                                         \o CollectText(msg.message.content.blocks)
                                ELSE commitMessage
            /\ UNCHANGED <<commitPc, commitOutcome, timeoutId>>
       ELSE IF msg.type = "message" /\ msg.message.role = "assistant"
       THEN IF ~msg.message.content.defined
            THEN /\ RethrowStreamError(<<"undefined is not iterable">>)
                 /\ UNCHANGED commitMessage
            ELSE /\ commitMessage' = commitMessage
                                         \o CollectText(msg.message.content.blocks)
                 /\ UNCHANGED <<commitPc, commitOutcome, timeoutId>>
       ELSE UNCHANGED <<commitMessage, commitPc, commitOutcome, timeoutId>>
    /\ UNCHANGED <<claudeCodeToken, stderrLines, aborted, sdkInvoked, now, CommitOther>>

\* The iteration throws, as when the process exits or the call is aborted
StreamThrows(errMessage) ==
    /\ commitPc = "streaming"
    /\ errMessage = AbortErrorMessage => aborted
    /\ RethrowStreamError(<<errMessage>>)
    /\ UNCHANGED <<claudeCodeToken, commitMessage, stderrLines, aborted, sdkInvoked,
                   streamCount, lastStreamMsg, now, CommitOther>>

\* The stream ends: the message is extracted and returned, or the function throws
StreamEnds ==
    /\ commitPc = "streaming"
    /\ LET cleanedMessage == ExtractCommitMessage(commitMessage)
       IN IF IsEmptyMessage(cleanedMessage)
          THEN SettleThroughFinally([kind |-> "throw",
                                     message |-> WithProcessOutput(EmptyMessageError)])
          ELSE SettleThroughFinally([kind |-> "return", value |-> cleanedMessage])
    /\ UNCHANGED <<claudeCodeToken, commitMessage, stderrLines, aborted, sdkInvoked,
                   streamCount, lastStreamMsg, now, CommitOther>>

\* The stderr callback of the query options
StderrData ==
    /\ commitPc \in {"querying", "streaming"}
    /\ Len(stderrLines) < MaxStderrLines
    /\ stderrLines' = Append(stderrLines, "warning")
    /\ UNCHANGED <<commitPc, claudeCodeToken, commitMessage, timeoutId, aborted,
                   sdkInvoked, streamCount, lastStreamMsg, commitOutcome, now,
                   CommitOther>>

\* The callback of the timer, run by the event loop once the timer is due
TimeoutFires ==
    /\ timeoutId.state = "armed"
    /\ now >= Deadline
    /\ aborted' = TRUE
    /\ timeoutId' = [timeoutId EXCEPT !.state = "fired"]
    /\ UNCHANGED <<commitPc, claudeCodeToken, commitMessage, stderrLines, sdkInvoked,
                   streamCount, lastStreamMsg, commitOutcome, now, CommitOther>>

\* Time passes while the call is suspended at an await; it does not pass a
\* timer that is due, as the event loop is free to run the timer's callback
Tick ==
    /\ commitPc \in {"importing", "querying", "streaming"}
    /\ now < MaxTicks * TickMs
    /\ ~(timeoutId.state = "armed" /\ now >= Deadline)
    /\ now' = IF timeoutId.state = "armed" /\ now + TickMs > Deadline
              THEN Deadline ELSE now + TickMs
    /\ UNCHANGED <<toolActivity, feedItems, dbVars, hookVars, chatVars, tokenVars,
                   commitVars, nagVars, ctxVars>>

CommitCredentials ==
    {[row |-> "none"],
     [row |-> "default", oauthToken |-> JsString(<<29, 32, Pad, Pad>>)],
     [row |-> "default", oauthToken |-> JsString(<<29, 32, 16, 16>>)]}

CommitInit ==
    /\ FeedIdle /\ DbIdle /\ HookIdle /\ ChatsIdle /\ CommitIdle /\ NagIdle /\ CtxIdle
    /\ credential \in CommitCredentials
    /\ encryptionAvailable = TRUE

CommitNext ==
    \/ \E dbThrows \in BOOLEAN, osFails \in BOOLEAN : CommitStart(dbThrows, osFails)
    \/ ImportRejects
    \/ ImportResolves
    \/ \E e \in StreamErrors \cup {AbortErrorMessage} : QueryRejects(e)
    \/ QueryResolves
    \/ \E msg \in StreamMessages : StreamMessage(msg)
    \/ \E e \in StreamErrors \cup {AbortErrorMessage} : StreamThrows(e)
    \/ StreamEnds
    \/ StderrData
    \/ TimeoutFires
    \/ Tick

SpecCommit == CommitInit /\ [][CommitNext]_vars

\* The event loop runs the callback of a timer that is due
FairSpecCommit == SpecCommit /\ WF_vars(TimeoutFires)

----------------------------------------------------------------------------
(* useNaggingSound *)

\* Bounds of the nagging specification
MaxNagTimers == 6
MaxNagTicks == 22

NAGGING_INTERVAL_MS == 30000
MAX_NAG_DURATION_MS == 600000

\* The step of the clock
NagTickMs == NAGGING_INTERVAL_MS

\* const shouldNag = !!pendingQuestions || !!chatWaiting
shouldNag == pendingQuestions \/ chatWaiting

\* The hook's refs, the live timers and the record of what was played
NagHook ==
    [timers |-> nagTimers, intervalRef |-> intervalRef, timeoutRef |-> timeoutRef,
     seq |-> nagTimerSeq, played |-> 0, lastPlayAt |-> lastPlayAt,
     startedAt |-> nagStartedAt]

\* clearInterval / clearTimeout: the timer of that id is no longer live
ClearTimer(timers, id) == {t \in timers : t.id # id}

\* if (intervalRef.current) { clearInterval(...); intervalRef.current = null }
\* if (timeoutRef.current) { clearTimeout(...); timeoutRef.current = null }
ClearNagTimersMutant(h) ==
    [h EXCEPT !.timers = ClearTimer(h.timers, h.timeoutRef),
              !.timeoutRef = 0]

ClearNagTimers(h) ==
    [h EXCEPT !.timers = ClearTimer(ClearTimer(h.timers, h.intervalRef), h.timeoutRef),
              !.intervalRef = 0,
              !.timeoutRef = 0]

\* soundManager.play("notification"), as the hook calls it
PlayNotification(h, t) == [h EXCEPT !.played = h.played + 1, !.lastPlayAt = t]

\* The second effect of the hook, run at time t with the values of the render:
\* the cleanup of its previous run, then its body
NagEffect(h, nag, muted, t) ==
    LET c == ClearNagTimers(ClearNagTimers(h))
    IN IF nag /\ ~muted
       THEN [PlayNotification(c, t) EXCEPT
                !.timers = c.timers \cup
                    {[id |-> c.seq + 1, kind |-> "interval",
                      due |-> t + NAGGING_INTERVAL_MS],
                     [id |-> c.seq + 2, kind |-> "timeout",
                      due |-> t + MAX_NAG_DURATION_MS]},
                !.intervalRef = c.seq + 1,
                !.timeoutRef = c.seq + 2,
                !.seq = c.seq + 2,
                !.startedAt = t]
       ELSE c

\* The hook's state becomes h
SetNagHook(h) ==
    /\ h.seq <= MaxNagTimers
    /\ nagTimers' = h.timers
    /\ intervalRef' = h.intervalRef
    /\ timeoutRef' = h.timeoutRef
    /\ nagTimerSeq' = h.seq
    /\ nagPlayed' = h.played
    /\ lastPlayAt' = h.lastPlayAt
    /\ nagStartedAt' = h.startedAt

NagOther == <<toolActivity, feedItems, dbVars, hookVars, chatVars, tokenVars, commitVars,
              ctxVars>>

\* The atoms of the pending questions and of the waiting chat change, and the
\* component renders again. When shouldNag has changed, the first effect
\* resets the mute on a new nag and the second effect runs with the muted
\* value of that render; the reset mute makes one more render, in which the
\* second effect runs again
AttentionChanges(questions, waiting) ==
    /\ <<questions, waiting>> # <<pendingQuestions, chatWaiting>>
    /\ pendingQuestions' = questions
    /\ chatWaiting' = waiting
    /\ LET nag == questions \/ waiting
           newNag == nag /\ ~prevShouldNagRef
       IN IF nag = shouldNag
          THEN /\ SetNagHook(NagHook)
               /\ UNCHANGED <<isMuted, prevShouldNagRef, attentionSince>>
          ELSE /\ isMuted' = IF newNag THEN FALSE ELSE isMuted
               /\ prevShouldNagRef' = nag
               /\ attentionSince' = IF nag THEN now ELSE -1
               /\ LET first == NagEffect(NagHook, nag, isMuted, now)
                  IN SetNagHook(IF newNag /\ isMuted
                                THEN NagEffect(first, nag, FALSE, now)
                                ELSE first)
    /\ UNCHANGED <<now, NagOther>>

\* The mute control sets nagMutedAtom, and the second effect runs again
SetMuted(muted) ==
    /\ muted # isMuted
    /\ isMuted' = muted
    /\ SetNagHook(NagEffect(NagHook, shouldNag, muted, now))
    /\ UNCHANGED <<pendingQuestions, chatWaiting, prevShouldNagRef, attentionSince,
                   now, NagOther>>

\* The callback of the interval
NagIntervalFires ==
    \E t \in nagTimers :
        /\ t.kind = "interval"
        /\ now >= t.due
        /\ SetNagHook([PlayNotification(NagHook, now) EXCEPT
                          !.timers = (nagTimers \ {t}) \cup
                              {[t EXCEPT !.due = t.due + NAGGING_INTERVAL_MS]}])
        /\ UNCHANGED <<pendingQuestions, chatWaiting, isMuted, prevShouldNagRef,
                       attentionSince, now, NagOther>>

\* The callback of the timeout: it stops the interval
NagTimeoutFires ==
    \E t \in nagTimers :
        /\ t.kind = "timeout"
        /\ now >= t.due
        /\ SetNagHook([NagHook EXCEPT
                          !.timers = ClearTimer(nagTimers \ {t}, intervalRef),
                          !.intervalRef = 0])
        /\ UNCHANGED <<pendingQuestions, chatWaiting, isMuted, prevShouldNagRef,
                       attentionSince, now, NagOther>>

\* Time passes, up to the time at which the next timer is due
NagTick ==
    /\ now < MaxNagTicks * NagTickMs
    /\ \A t \in nagTimers : now < t.due
    /\ LET dues == {t.due : t \in nagTimers} \cup {now + NagTickMs}
       IN now' = CHOOSE d \in dues : \A e \in dues : d <= e
    /\ nagPlayed' = 0
    /\ UNCHANGED <<toolActivity, feedItems, dbVars, hookVars, chatVars, tokenVars,
                   commitVars, pendingQuestions, chatWaiting, isMuted,
                   prevShouldNagRef, intervalRef, timeoutRef, nagTimers, nagTimerSeq,
                   lastPlayAt, nagStartedAt, attentionSince, ctxVars>>

NagInit == FeedIdle /\ DbIdle /\ HookIdle /\ ChatsIdle /\ TokenIdle /\ CommitIdle /\ NagIdle /\ CtxIdle

NagNext ==
    \/ \E questions \in BOOLEAN, waiting \in BOOLEAN : AttentionChanges(questions, waiting)
    \/ \E muted \in BOOLEAN : SetMuted(muted)
    \/ NagIntervalFires
    \/ NagTimeoutFires
    \/ NagTick

SpecNag == NagInit /\ [][NagNext]_vars

----------------------------------------------------------------------------
(* activity-feed.tsx: sorting and grouping of the feed *)

EXPLORE_TOOLS == {"Read", "Grep", "Glob"}

MIN_GROUP_SIZE == 3

\* 5 * 60 * 1000, the session window of groupActivities
SESSION_WINDOW_MS == 300000

\* Bounds of the feed specification
MaxFeedLen == 3
ShortGapMs == 240000
ToolNames == {"Read", "Glob", "Bash"}
ChatNames == {"chatA", "chatB"}
Gaps == {ShortGapMs, SESSION_WINDOW_MS}

\* The comparator of the feed's sort: pinned items first, then createdAt desc.
\* TRUE when a must stay before b (the comparator's result is <= 0).
SortBefore(a, b) ==
    IF a.isPinned /\ ~b.isPinned THEN TRUE
    ELSE IF ~a.isPinned /\ b.isPinned THEN FALSE
    ELSE b.createdAt - a.createdAt <= 0

\* Array.prototype.sort is stable: insert each element after the last element
\* that must stay before it.
RECURSIVE InsertSorted(_, _)
InsertSorted(s, a) ==
    IF s = <<>> THEN <<a>>
    ELSE IF SortBefore(Head(s), a) THEN <<Head(s)>> \o InsertSorted(Tail(s), a)
    ELSE <<a>> \o s

RECURSIVE sortedActivities(_)
sortedActivities(acts) ==
    IF acts = <<>> THEN <<>>
    ELSE InsertSorted(sortedActivities(SubSeq(acts, 1, Len(acts) - 1)),
                      acts[Len(acts)])

ActivityItem(a) == [type |-> "activity", activity |-> a]

flushGroupMutant(result, currentGroup) ==
    IF Len(currentGroup) > MIN_GROUP_SIZE
    THEN Append(result,
                [type |-> "group",
                 id |-> currentGroup[1].id,
                 activities |-> currentGroup,
                 chatName |-> currentGroup[1].chatName,
                 createdAt |-> currentGroup[1].createdAt])
    ELSE result \o [i \in 1..Len(currentGroup) |-> ActivityItem(currentGroup[i])]

flushGroup(result, currentGroup) ==
    IF Len(currentGroup) >= MIN_GROUP_SIZE
    THEN Append(result,
                [type |-> "group",
                 id |-> currentGroup[1].id,
                 activities |-> currentGroup,
                 chatName |-> currentGroup[1].chatName,
                 createdAt |-> currentGroup[1].createdAt])
    ELSE result \o [i \in 1..Len(currentGroup) |-> ActivityItem(currentGroup[i])]

JoinsGroupMutant(activity, currentGroup) ==
    \/ Len(currentGroup) = 0
    \/ LET lastInGroup == currentGroup[Len(currentGroup)]
           timeDiff == Abs(activity.createdAt - lastInGroup.createdAt)
       IN timeDiff <= SESSION_WINDOW_MS

\* Whether the loop body pushes the activity onto the current group
JoinsGroup(activity, currentGroup) ==
    \/ Len(currentGroup) = 0
    \/ LET lastInGroup == currentGroup[Len(currentGroup)]
           timeDiff == Abs(activity.createdAt - lastInGroup.createdAt)
           sameChat == activity.chatName = lastInGroup.chatName
       IN timeDiff < SESSION_WINDOW_MS /\ sameChat

RECURSIVE GroupLoop(_, _, _, _)
GroupLoop(acts, i, result, currentGroup) ==
    IF i > Len(acts) THEN flushGroup(result, currentGroup)
    ELSE LET activity == acts[i] IN
         IF activity.isPinned
         THEN GroupLoop(acts, i + 1,
                        Append(flushGroup(result, currentGroup), ActivityItem(activity)),
                        <<>>)
         ELSE IF activity.toolName \in EXPLORE_TOOLS
         THEN IF JoinsGroup(activity, currentGroup)
              THEN GroupLoop(acts, i + 1, result, Append(currentGroup, activity))
              ELSE GroupLoop(acts, i + 1, flushGroup(result, currentGroup), <<activity>>)
         ELSE GroupLoop(acts, i + 1,
                        Append(flushGroup(result, currentGroup), ActivityItem(activity)),
                        <<>>)

groupActivities(acts) == GroupLoop(acts, 1, <<>>, <<>>)

\* One render of ActivityFeed: sort, then group
RenderFeed(acts) == groupActivities(sortedActivities(acts))

FeedInit == FeedIdle /\ DbIdle /\ HookIdle /\ ChatsIdle /\ TokenIdle /\ CommitIdle /\ NagIdle /\ CtxIdle

\* A tool starts: the activity is added to the atom and the feed re-renders
FeedAddActivity(toolName, chatName, gap) ==
    /\ Len(toolActivity) < MaxFeedLen
    /\ now' = now + gap
    /\ toolActivity' = Append(toolActivity,
                              [id |-> Len(toolActivity) + 1,
                               toolName |-> toolName,
                               chatName |-> chatName,
                               createdAt |-> now',
                               isPinned |-> FALSE])
    /\ feedItems' = RenderFeed(toolActivity')
    /\ UNCHANGED <<dbVars, hookVars, chatVars, tokenVars, commitVars, nagVars, ctxVars>>

\* The optimistic update of handleTogglePin, and the re-render
FeedTogglePin(i) ==
    /\ i \in 1..Len(toolActivity)
    /\ toolActivity' = [toolActivity EXCEPT ![i].isPinned = ~toolActivity[i].isPinned]
    /\ feedItems' = RenderFeed(toolActivity')
    /\ UNCHANGED <<now, dbVars, hookVars, chatVars, tokenVars, commitVars, nagVars, ctxVars>>

FeedNext ==
    \/ \E t \in ToolNames, c \in ChatNames, g \in Gaps : FeedAddActivity(t, c, g)
    \/ \E i \in 1..MaxFeedLen : FeedTogglePin(i)

SpecFeed == FeedInit /\ [][FeedNext]_vars

----------------------------------------------------------------------------
(* activity feed: the pin and clear buttons and their database calls *)

\* Bound of the feed calls specification: togglePin calls not yet settled
MaxPinCalls == 2

\* toggleActivityPinAtom: the activity with the id takes the given isPinned
togglePin(acts, upd) ==
    [i \in 1..Len(acts) |->
        IF acts[i].id = upd.id THEN [acts[i] EXCEPT !.isPinned = upd.isPinned]
        ELSE acts[i]]

\* activities.togglePin
ActivitiesTogglePin(input) ==
    /\ dbActivities' = [i \in 1..Len(dbActivities) |->
                           IF dbActivities[i].id = input.id
                           THEN [dbActivities[i] EXCEPT !.isPinned = input.isPinned]
                           ELSE dbActivities[i]]
    /\ lastRpc' = [proc |-> "togglePin", input |-> input, id |-> input.id]
    /\ UNCHANGED dbIdSeq

\* The togglePin and clear calls that have not settled
PinCalls == {m \in rpcInFlight : m.kind \in {"togglePinReq", "togglePinRes"}}

ClearCalls == {m \in rpcInFlight : m.kind \in {"clearReq", "clearRes"}}

\* What the feed calls leave alone
FeedCallsOther ==
    UNCHANGED <<now, toolCallToActivityId, localToDbId, localIdSeq, hookSettings,
                toasts, chatVars, tokenVars, commitVars, nagVars, ctxVars>>

\* handleTogglePin up to its await: the optimistic update and the request;
\* activity is the rendered activity, and the feed re-renders
PinClicked(i) ==
    /\ i \in 1..Len(toolActivity)
    /\ Cardinality(PinCalls) < MaxPinCalls
    /\ LET activity == toolActivity[i]
           newPinnedState == ~activity.isPinned
           n == CHOOSE k \in 1..MaxPinCalls : \A m \in PinCalls : m.n # k
       IN /\ toolActivity' = togglePin(toolActivity,
                                       [id |-> activity.id, isPinned |-> newPinnedState])
          /\ rpcInFlight' = rpcInFlight \cup
                 {[kind |-> "togglePinReq", n |-> n,
                   input |-> [id |-> activity.id, isPinned |-> newPinnedState],
                   activity |-> [id |-> activity.id, isPinned |-> activity.isPinned]]}
          /\ lastEvent' = [type |-> "pin-click", id |-> activity.id]
    /\ feedItems' = RenderFeed(toolActivity')
    /\ UNCHANGED dbVars
    /\ FeedCallsOther

\* The main process serves a togglePin request, or the call fails
TogglePinServed(req, ok) ==
    /\ req \in rpcInFlight /\ req.kind = "togglePinReq"
    /\ IF ok THEN ActivitiesTogglePin(req.input) ELSE UNCHANGED dbVars
    /\ rpcInFlight' = (rpcInFlight \ {req}) \cup
           {[kind |-> "togglePinRes", n |-> req.n, ok |-> ok, activity |-> req.activity]}
    /\ UNCHANGED <<toolActivity, feedItems, lastEvent>>
    /\ FeedCallsOther

\* The in-memory list after the await of handleTogglePin: the catch block
\* sets the activity back to the isPinned it was rendered with
AfterTogglePin(acts, ok, activity) ==
    IF ok THEN acts
    ELSE togglePin(acts, [id |-> activity.id, isPinned |-> activity.isPinned])

\* handleTogglePin after its await
TogglePinSettled(res) ==
    /\ res \in rpcInFlight /\ res.kind = "togglePinRes"
    /\ toolActivity' = AfterTogglePin(toolActivity, res.ok, res.activity)
    /\ feedItems' = RenderFeed(toolActivity')
    /\ rpcInFlight' = rpcInFlight \ {res}
    /\ lastEvent' = [type |-> "togglePin-settled", ok |-> res.ok,
                     id |-> res.activity.id]
    /\ UNCHANGED dbVars
    /\ FeedCallsOther

\* handleClear up to its await
ClearClicked ==
    /\ ClearCalls = {}
    /\ rpcInFlight' = rpcInFlight \cup {[kind |-> "clearReq"]}
    /\ lastEvent' = [type |-> "clear-click"]
    /\ UNCHANGED <<toolActivity, feedItems, dbVars>>
    /\ FeedCallsOther

\* The main process serves the clear request, or the call fails
ClearServed(req, ok) ==
    /\ req \in rpcInFlight /\ req.kind = "clearReq"
    /\ IF ok THEN ActivitiesClear ELSE UNCHANGED dbVars
    /\ rpcInFlight' = (rpcInFlight \ {req}) \cup {[kind |-> "clearRes", ok |-> ok]}
    /\ UNCHANGED <<toolActivity, feedItems, lastEvent>>
    /\ FeedCallsOther

\* The in-memory list after the await of handleClear: clearActivities() runs
\* only when the call has not thrown
AfterClearMutant(acts, ok) == <<>>

AfterClear(acts, ok) == IF ok THEN <<>> ELSE acts

\* handleClear after its await
ClearSettled(res) ==
    /\ res \in rpcInFlight /\ res.kind = "clearRes"
    /\ toolActivity' = AfterClear(toolActivity, res.ok)
    /\ feedItems' = RenderFeed(toolActivity')
    /\ rpcInFlight' = rpcInFlight \ {res}
    /\ lastEvent' = [type |-> "clear-settled", ok |-> res.ok]
    /\ UNCHANGED dbVars
    /\ FeedCallsOther

\* The feed has loaded two activities from the database, the second pinned
LoadedRow(id, isPinned) ==
    [id |-> id, toolName |-> "Bash", chatName |-> "chatA", state |-> "complete",
     input |-> JsNull, output |-> JsNull, errorText |-> JsNull, isPinned |-> isPinned,
     createdAt |-> 0]

FeedCallsInit ==
    /\ ChatsIdle /\ TokenIdle /\ CommitIdle /\ NagIdle /\ CtxIdle /\ HookIdle
    /\ now = 0
    /\ dbActivities = <<LoadedRow(1, FALSE), LoadedRow(2, TRUE)>>
    /\ dbIdSeq = 2
    /\ lastRpc = [proc |-> "getRecent"]
    /\ toolActivity = dbActivities
    /\ feedItems = RenderFeed(toolActivity)

FeedCallsNext ==
    \/ \E i \in 1..2 : PinClicked(i)
    \/ \E req \in rpcInFlight, ok \in BOOLEAN : TogglePinServed(req, ok)
    \/ \E res \in rpcInFlight : TogglePinSettled(res)
    \/ ClearClicked
    \/ \E req \in rpcInFlight, ok \in BOOLEAN : ClearServed(req, ok)
    \/ \E res \in rpcInFlight : ClearSettled(res)

SpecFeedCalls == FeedCallsInit /\ [][FeedCallsNext]_vars

----------------------------------------------------------------------------
(* use-text-context-selection: the selected text contexts of the chat input *)

\* Bounds of the text context specification: the contexts ever added and the
\* state updates waiting for a render
MaxContexts == 2
MaxPendingUpdates == 2

\* The texts, messages, files and lines a selection is made of
ContextTexts == {<<>>, <<" ">>, <<"a">>, <<" ", "a", "\n">>, <<"b">>}
SourceMessageIds == {"m1", "m2"}
FilePaths == {"f1", "f2"}
LineNumbers == {1, 2}

\* ref.current.some((ctx) => ctx.text === trimmedText && ctx[key] === value)
IsDuplicate(contexts, trimmedText, key, value) ==
    \E i \in 1..Len(contexts) :
        contexts[i].text = trimmedText /\ contexts[i][key] = value

\* A state update: setState((prev) => [...prev, newContext]),
\* setState((prev) => prev.filter((ctx) => ctx.id !== id)) or setState([])
ApplyUpdate(prev, update) ==
    CASE update.op = "append" -> Append(prev, update.context)
      [] update.op = "remove" ->
            LET Keep(ctx) == ctx.id # update.id IN SelectSeq(prev, Keep)
      [] update.op = "set" -> update.value

RECURSIVE ApplyUpdates(_, _)
ApplyUpdates(prev, updates) ==
    IF updates = <<>> THEN prev
    ELSE ApplyUpdates(ApplyUpdate(prev, Head(updates)), Tail(updates))

\* What the hook's functions leave alone
CtxOther ==
    UNCHANGED <<feedVars, dbVars, hookVars, chatVars, tokenVars, commitVars, nagVars>>

PendingUpdates == Len(textUpdates) + Len(diffUpdates)

\* addTextContext
addTextContext(text, sourceMessageId) ==
    LET trimmedText == TokTrim(text)
        newContext == [id |-> ctxIdSeq + 1, text |-> trimmedText,
                       sourceMessageId |-> sourceMessageId, createdAt |-> now]
    IN IF trimmedText = <<>>
       THEN /\ lastCtxCall' = [op |-> "addTextContext", added |-> FALSE,
                               why |-> "empty"]
            /\ UNCHANGED <<textUpdates, ctxIdSeq>>
       ELSE IF IsDuplicate(textContextsRef, trimmedText, "sourceMessageId",
                           sourceMessageId)
       THEN /\ lastCtxCall' = [op |-> "addTextContext", added |-> FALSE,
                               why |-> "duplicate"]
            /\ UNCHANGED <<textUpdates, ctxIdSeq>>
       ELSE /\ ctxIdSeq < MaxContexts /\ PendingUpdates < MaxPendingUpdates
            /\ textUpdates' = Append(textUpdates,
                                     [op |-> "append", context |-> newContext])
            /\ ctxIdSeq' = ctxIdSeq + 1
            /\ lastCtxCall' = [op |-> "addTextContext", added |-> TRUE,
                               why |-> "new"]

\* addDiffTextContext
addDiffTextContext(text, filePath, lineNumber, lineType) ==
    LET trimmedText == TokTrim(text)
        newContext == [id |-> ctxIdSeq + 1, text |-> trimmedText,
                       filePath |-> filePath, lineNumber |-> lineNumber,
                       lineType |-> lineType, createdAt |-> now]
    IN IF trimmedText = <<>>
       THEN /\ lastCtxCall' = [op |-> "addDiffTextContext", added |-> FALSE,
                               why |-> "empty"]
            /\ UNCHANGED <<diffUpdates, ctxIdSeq>>
       ELSE IF IsDuplicate(diffTextContextsRef, trimmedText, "filePath", filePath)
       THEN /\ lastCtxCall' = [op |-> "addDiffTextContext", added |-> FALSE,
                               why |-> "duplicate"]
            /\ UNCHANGED <<diffUpdates, ctxIdSeq>>
       ELSE /\ ctxIdSeq < MaxContexts /\ PendingUpdates < MaxPendingUpdates
            /\ diffUpdates' = Append(diffUpdates,
                                     [op |-> "append", context |-> newContext])
            /\ ctxIdSeq' = ctxIdSeq + 1
            /\ lastCtxCall' = [op |-> "addDiffTextContext", added |-> TRUE,
                               why |-> "new"]

\* removeTextContext
removeTextContext(id) ==
    /\ PendingUpdates < MaxPendingUpdates
    /\ textUpdates' = Append(textUpdates, [op |-> "remove", id |-> id])
    /\ lastCtxCall' = [op |-> "removeTextContext"]
    /\ UNCHANGED ctxIdSeq

\* removeDiffTextContext
removeDiffTextContext(id) ==
    /\ PendingUpdates < MaxPendingUpdates
    /\ diffUpdates' = Append(diffUpdates, [op |-> "remove", id |-> id])
    /\ lastCtxCall' = [op |-> "removeDiffTextContext"]
    /\ UNCHANGED ctxIdSeq

\* clearTextContexts
clearTextContexts ==
    /\ PendingUpdates < MaxPendingUpdates
    /\ textUpdates' = Append(textUpdates, [op |-> "set", value |-> <<>>])
    /\ lastCtxCall' = [op |-> "clearTextContexts"]
    /\ UNCHANGED ctxIdSeq

\* clearDiffTextContexts
clearDiffTextContexts ==
    /\ PendingUpdates < MaxPendingUpdates
    /\ diffUpdates' = Append(diffUpdates, [op |-> "set", value |-> <<>>])
    /\ lastCtxCall' = [op |-> "clearDiffTextContexts"]
    /\ UNCHANGED ctxIdSeq

\* A call that touches the text contexts only, or the diff contexts only
TextCall(call) ==
    /\ call
    /\ UNCHANGED <<textContexts, diffTextContexts, textContextsRef,
                   diffTextContextsRef, diffUpdates>>
    /\ CtxOther

DiffCall(call) ==
    /\ call
    /\ UNCHANGED <<textContexts, diffTextContexts, textContextsRef,
                   diffTextContextsRef, textUpdates>>
    /\ CtxOther

\* The component renders: React applies the waiting state updates in order,
\* and the render sets the refs to the new states
CtxRender ==
    /\ PendingUpdates > 0
    /\ textContexts' = ApplyUpdates(textContexts, textUpdates)
    /\ diffTextContexts' = ApplyUpdates(diffTextContexts, diffUpdates)
    /\ textContextsRef' = textContexts'
    /\ diffTextContextsRef' = diffTextContexts'
    /\ textUpdates' = <<>>
    /\ diffUpdates' = <<>>
    /\ lastCtxCall' = [op |-> "render"]
    /\ UNCHANGED ctxIdSeq
    /\ CtxOther

CtxInit ==
    /\ FeedIdle /\ DbIdle /\ HookIdle /\ ChatsIdle /\ TokenIdle /\ CommitIdle
    /\ NagIdle /\ CtxIdle

CtxNext ==
    \/ \E t \in ContextTexts, id \in SourceMessageIds : TextCall(addTextContext(t, id))
    \/ \E t \in ContextTexts, f \in FilePaths, n \in LineNumbers :
          DiffCall(addDiffTextContext(t, f, n, "new"))
    \/ \E id \in 1..MaxContexts : TextCall(removeTextContext(id))
    \/ \E id \in 1..MaxContexts : DiffCall(removeDiffTextContext(id))
    \/ TextCall(clearTextContexts)
    \/ DiffCall(clearDiffTextContexts)
    \/ CtxRender

SpecCtx == CtxInit /\ [][CtxNext]_vars

----------------------------------------------------------------------------
(* chats router: pending plan approvals *)

\* Bound of the plan approvals specification: the messages of a sub-chat
MaxMessages == 2

\* A text is a sequence of tokens; a part has a type and, optionally, a text;
\* a message has a role and, optionally, parts and a content
TextPart(text) == [type |-> "text", text |-> text]
ExitPlanPart == [type |-> "tool-ExitPlanMode"]

PlanMessages ==
    {JsNull,
     [role |-> "user", parts |-> <<TextPart(<<"Implement plan">>)>>],
     [role |-> "user", parts |-> <<TextPart(<<" ", "IMPLEMENT PLAN", "\n">>)>>],
     [role |-> "user", parts |-> <<TextPart(<<"Implement plan", " ", "ok">>)>>],
     [role |-> "user", parts |-> <<TextPart(<<"ok">>), TextPart(<<"Implement plan">>)>>],
     [role |-> "user", content |-> <<"Implement plan">>],
     [role |-> "user", parts |-> <<ExitPlanPart>>],
     [role |-> "assistant", parts |-> <<TextPart(<<"ok">>), ExitPlanPart>>],
     [role |-> "assistant", parts |-> <<TextPart(<<"Implement plan">>)>>]}

\* The text of the messages column: JSON.stringify of a message list, or a
\* text that is not JSON
JsonStringify(value) == [valid |-> TRUE, value |-> value]
InvalidJson == [valid |-> FALSE]

\* JSON.parse
JsonParse(text) ==
    IF text.valid THEN [threw |-> FALSE, value |-> text.value] ELSE [threw |-> TRUE]

\* text.trim().toLowerCase()
TrimLower(text) == LET t == TokTrim(text) IN [k \in 1..Len(t) |-> ToLowerCase(t[k])]

\* msg.parts?.find((p) => p.type === type)
FindPart(msg, type) ==
    IF "parts" \notin DOMAIN msg THEN JsUndefined
    ELSE LET hits == {k \in 1..Len(msg.parts) : msg.parts[k].type = type}
         IN IF hits = {} THEN JsUndefined
            ELSE msg.parts[CHOOSE k \in hits : \A h \in hits : k <= h]

\* The user message says "Implement plan"
SaysImplementPlanMutant(msg) ==
    /\ msg.role = "user"
    /\ LET textPart == FindPart(msg, "text")
           text == IF textPart # JsUndefined /\ "text" \in DOMAIN textPart
                   THEN textPart.text ELSE <<>>
       IN text = <<"Implement plan">>

SaysImplementPlan(msg) ==
    /\ msg.role = "user"
    /\ LET textPart == FindPart(msg, "text")
           text == IF textPart # JsUndefined /\ "text" \in DOMAIN textPart
                   THEN textPart.text ELSE <<>>
       IN TrimLower(text) = <<"implement plan">>

\* The assistant message has a tool-ExitPlanMode part
HasExitPlanMode(msg) ==
    /\ msg.role = "assistant"
    /\ "parts" \in DOMAIN msg
    /\ FindPart(msg, "tool-ExitPlanMode") # JsUndefined

\* The loop from messages[i] down to the first message: hasUnapprovedPlan
RECURSIVE hasUnapprovedPlan(_, _)
hasUnapprovedPlan(messages, i) ==
    IF i < 1 THEN FALSE
    ELSE LET msg == messages[i] IN
         IF msg = JsNull THEN hasUnapprovedPlan(messages, i - 1)
         ELSE IF SaysImplementPlan(msg) THEN FALSE
         ELSE IF HasExitPlanMode(msg) THEN TRUE
         ELSE hasUnapprovedPlan(messages, i - 1)

\* chats left join sub_chats where the chat is not archived; the row of a chat
\* without sub-chats has no subChatId and no messages
RECURSIVE LeftJoinSubChats(_)
LeftJoinSubChats(chatRows) ==
    IF chatRows = <<>> THEN <<>>
    ELSE LET chat == Head(chatRows)
             OfChat(sc) == sc.chatId = chat.id
             subs == SelectSeq(dbSubChats, OfChat)
             rows == IF subs = <<>> THEN <<[chatId |-> chat.id]>>
                     ELSE [k \in 1..Len(subs) |->
                              [chatId |-> chat.id, subChatId |-> subs[k].id,
                               messages |-> subs[k].messages]]
         IN rows \o LeftJoinSubChats(Tail(chatRows))

\* The inputs of getPendingPlanApprovals: without and with openSubChatIds
PlanInputs == {[given |-> FALSE]} \cup
              {[given |-> TRUE, openSubChatIds |-> ids] : ids \in {{}, {1, 2}, {3}}}

\* The rows getPendingPlanApprovals looks at
AllSubChats(input) ==
    LET NotArchived(chat) == chat.archivedAt = JsNull
        Open(row) == \/ ~input.given
                     \/ "subChatId" \notin DOMAIN row
                     \/ row.subChatId \in input.openSubChatIds
    IN SelectSeq(LeftJoinSubChats(SelectSeq(dbChats, NotArchived)), Open)

\* The result of getPendingPlanApprovals
pendingApprovals(input) ==
    LET Pending(row) ==
            /\ "subChatId" \in DOMAIN row
            /\ row.messages # JsNull
            /\ LET parsed == JsonParse(row.messages)
               IN ~parsed.threw /\ hasUnapprovedPlan(parsed.value, Len(parsed.value))
        rows == SelectSeq(AllSubChats(input), Pending)
    IN [k \in 1..Len(rows) |->
           [subChatId |-> rows[k].subChatId, chatId |-> rows[k].chatId]]

\* chats.getPendingPlanApprovals
GetPendingPlanApprovals(input) ==
    /\ lastRpc' = [proc |-> "chats.getPendingPlanApprovals", input |-> input,
                   result |-> pendingApprovals(input)]
    /\ UNCHANGED chatVars

\* chats.updateSubChatMessages
UpdateSubChatMessages(id, messages) ==
    /\ dbSubChats' = [i \in 1..Len(dbSubChats) |->
                         IF dbSubChats[i].id = id
                         THEN [dbSubChats[i] EXCEPT !.messages = messages]
                         ELSE dbSubChats[i]]
    /\ lastRpc' = [proc |-> "chats.updateSubChatMessages"]
    /\ UNCHANGED <<dbProjects, dbChats, chatIdSeq, subChatIdSeq, chatsAwaiting,
                   worktrees>>

\* The message lists the second and third sub-chat take: a plan waiting for
\* approval and an approved plan
WaitingPlan == <<[role |-> "assistant", parts |-> <<TextPart(<<"ok">>), ExitPlanPart>>]>>

ApprovedPlan == WaitingPlan \o <<[role |-> "user", parts |-> <<TextPart(<<"Implement plan">>)>>]>>

\* Three chats: the first has the sub-chats 1 and 2, the second the sub-chat
\* 3, the third has none. The client sends the first sub-chat's messages with
\* one more message each time, or any sub-chat's messages as one of three texts
PlansInit ==
    /\ FeedIdle /\ DbIdle /\ HookIdle /\ TokenIdle /\ CommitIdle /\ NagIdle /\ CtxIdle
    /\ dbProjects = ProjectIds
    /\ dbChats = [i \in 1..3 |->
                     [id |-> i, projectId |-> "p1", archivedAt |-> JsNull,
                      worktreePath |-> ProjectPath("p1"), branch |-> JsNull,
                      baseBranch |-> JsNull]]
    /\ dbSubChats = <<[id |-> 1, chatId |-> 1, messages |-> JsNull],
                      [id |-> 2, chatId |-> 1, messages |-> JsNull],
                      [id |-> 3, chatId |-> 2, messages |-> JsNull]>>
    /\ chatIdSeq = 3
    /\ subChatIdSeq = 3
    /\ chatsAwaiting = {}
    /\ worktrees = {}

PlansNext ==
    \/ \E input \in PlanInputs : GetPendingPlanApprovals(input) /\ ChatsOther
    \/ \E msg \in PlanMessages :
          /\ IF dbSubChats[1].messages \in {JsNull, InvalidJson} THEN TRUE
             ELSE Len(dbSubChats[1].messages.value) < MaxMessages
          /\ LET sent == IF dbSubChats[1].messages \in {JsNull, InvalidJson}
                         THEN <<>> ELSE dbSubChats[1].messages.value
             IN UpdateSubChatMessages(1, JsonStringify(Append(sent, msg)))
          /\ ChatsOther
    \/ \E id \in 1..3, text \in {InvalidJson, JsonStringify(WaitingPlan),
                                   JsonStringify(ApprovedPlan)} :
          UpdateSubChatMessages(id, text) /\ ChatsOther
    \/ \E id \in 1..2 : ChatsArchive(id) /\ ChatsOther
    \/ \E id \in 1..2 : ChatsRestore(id) /\ ChatsOther

SpecPlans == PlansInit /\ [][PlansNext]_vars

----------------------------------------------------------------------------
(* Properties of the feed grouping *)

\* The input of groupActivities at the last render
FeedInput == sortedActivities(toolActivity)

Groupable(a) == ~a.isPinned /\ a.toolName \in {"Read", "Grep", "Glob"}

\* s[i] continues the run of s[i-1]
Linked(s, i) ==
    /\ i \in 2..Len(s)
    /\ Groupable(s[i - 1]) /\ Groupable(s[i])
    /\ s[i].chatName = s[i - 1].chatName
    /\ Abs(s[i].createdAt - s[i - 1].createdAt) < 5 * 60 * 1000

Min(S) == CHOOSE x \in S : \A y \in S : x <= y
Max(S) == CHOOSE x \in S : \A y \in S : x >= y

RunStart(s, p) == Min({i \in 1..p : \A k \in (i + 1)..p : Linked(s, k)})
RunEnd(s, p) == Max({j \in p..Len(s) : \A k \in (p + 1)..j : Linked(s, k)})
RunLen(s, p) == RunEnd(s, p) - RunStart(s, p) + 1

ItemActivities(item) ==
    IF item.type = "group" THEN item.activities ELSE <<item.activity>>

Flatten(items) == Concat([k \in 1..Len(items) |-> ItemActivities(items[k])])

ItemOffset(items, k) == Len(Flatten(SubSeq(items, 1, k - 1)))

Groups == {item \in Range(feedItems) : item.type = "group"}

\* C1: every maximal run of 3 or more consecutive unpinned explore activities
\* of one chat, each less than 5 minutes from the previous one, is replaced by
\* exactly one group holding them in order; shorter runs, pinned activities and
\* non-explore activities are emitted as individual items.
C1_GroupsAreMaximalRuns ==
    LET s == FeedInput IN
    /\ Flatten(feedItems) = s
    /\ \A k \in 1..Len(feedItems) :
         LET item == feedItems[k]
             first == ItemOffset(feedItems, k) + 1
             last == ItemOffset(feedItems, k) + Len(ItemActivities(item))
         IN IF item.type = "group"
            THEN /\ Len(item.activities) >= 3
                 /\ Groupable(s[first])
                 /\ RunStart(s, first) = first
                 /\ RunEnd(s, first) = last
            ELSE ~(Groupable(s[first]) /\ RunLen(s, first) >= 3)

\* C1 witness: a run of three explore activities was rendered as a group while
\* a Glob activity is part of it
C1_Witness ==
    \E g \in Groups : \E i \in 1..Len(g.activities) : g.activities[i].toolName = "Glob"

\* C2 as stated: any two members of a group are less than 5 minutes apart and
\* all members have the same chatName.
C2_AnyTwoMembersWithinWindow ==
    \A g \in Groups : \A i, j \in 1..Len(g.activities) :
        /\ Abs(g.activities[i].createdAt - g.activities[j].createdAt) < 5 * 60 * 1000
        /\ g.activities[i].chatName = g.activities[j].chatName

\* C2 amended: any two ADJACENT members of a group are less than 5 minutes
\* apart, and all members have the same chatName.
C2_AdjacentMembersWithinWindow ==
    \A g \in Groups :
        /\ \A i \in 2..Len(g.activities) :
             Abs(g.activities[i].createdAt - g.activities[i - 1].createdAt) < 5 * 60 * 1000
        /\ \A i, j \in 1..Len(g.activities) :
             g.activities[i].chatName = g.activities[j].chatName

\* C2 witness: a group whose first and last member are 5 minutes or more apart
C2_Witness ==
    \E g \in Groups :
        Abs(g.activities[1].createdAt - g.activities[Len(g.activities)].createdAt)
            >= 5 * 60 * 1000

----------------------------------------------------------------------------
(* Properties of the activities router *)

\* What the claim says truncateJson returns for a value
ExpectedStored(value) ==
    IF value.t \in {"undefined", "null"} THEN JsNull
    ELSE LET text == IF value.t = "string" THEN value.s ELSE JSONstringify(value) IN
         IF StrLen(text) <= 50000 THEN JsString(text)
         ELSE JsString(StrConcat(Substring0(text, 50000),
                  FromChars(<<"\n", ".", ".", ".", " ", "(", "t", "r", "u", "n", "c",
                              "a", "t", "e", "d", ")">>)))

StoredLen(v) == IF v.t = "string" THEN StrLen(v.s) ELSE 0

\* C3: truncateJson returns null for undefined and null, the text (the string
\* itself or its JSON serialisation) unchanged when it has at most 50000
\* characters, and otherwise its first 50000 characters followed by
\* "\n... (truncated)"; every stored input and output has at most 50000 + 16
\* characters.
C3_TruncateJsonContract ==
    /\ \A i \in 1..Len(dbActivities) :
         /\ lastRpc.proc = "create" /\ dbActivities[i].id = lastRpc.id
              => dbActivities[i].input = ExpectedStored(lastRpc.input.input)
         /\ lastRpc.proc = "update" /\ dbActivities[i].id = lastRpc.id
              => dbActivities[i].output = ExpectedStored(lastRpc.input.output)
    /\ \A i \in 1..Len(dbActivities) :
         /\ StoredLen(dbActivities[i].input) <= 50000 + 16
         /\ StoredLen(dbActivities[i].output) <= 50000 + 16

\* C3 witness: an update has stored a truncated output in a row whose input
\* was stored untruncated with exactly 50000 characters
C3_Witness ==
    /\ lastRpc.proc = "update"
    /\ \E i \in 1..Len(dbActivities) :
         /\ dbActivities[i].id = lastRpc.id
         /\ lastRpc.input.output.t = "object"
         /\ StrLen(lastRpc.input.output.val) < 50000
         /\ StoredLen(dbActivities[i].output) = 50016
         /\ StoredLen(dbActivities[i].input) = 50000

----------------------------------------------------------------------------
(* Properties of the tool notification hook *)

ActivityById(acts, id) == {acts[i] : i \in {k \in 1..Len(acts) : acts[k].id = id}}

C4_StatesAreLegal ==
    /\ \A i \in 1..Len(toolActivity) :
         toolActivity[i].state \in {"running", "complete", "error"}
    /\ \A i \in 1..Len(dbActivities) :
         dbActivities[i].state \in {"running", "complete", "error"}

\* An activity that joins the list or the table in this step is running
C4_CreatedRunning ==
    /\ \A a \in Range(toolActivity') :
         ActivityById(toolActivity, a.id) = {} => a.state = "running"
    /\ \A r \in Range(dbActivities') :
         ActivityById(dbActivities, r.id) = {} => r.state = "running"

\* Handling the tool-complete event of a known tool call sets its activity to
\* error when isError is true and to complete otherwise
C4_CompleteSetsState ==
    (/\ lastEvent'.type = "tool-complete"
     /\ lastEvent'.toolCallId \in DOMAIN toolCallToActivityId)
    => \A a \in ActivityById(toolActivity', toolCallToActivityId[lastEvent'.toolCallId]) :
           a.state = IF lastEvent'.isError THEN "error" ELSE "complete"

\* A state changes only from running to complete or error
C4_ChangesOnlyFromRunning ==
    /\ \A a \in Range(toolActivity) : \A b \in ActivityById(toolActivity', a.id) :
         a.state # b.state => a.state = "running" /\ b.state \in {"complete", "error"}
    /\ \A r \in Range(dbActivities) : \A q \in ActivityById(dbActivities', r.id) :
         r.state # q.state => r.state = "running" /\ q.state \in {"complete", "error"}

\* C4: an activity's state is always running, complete or error; tool-start
\* creates it running, the matching tool-complete moves it to error when
\* isError and to complete otherwise, and the state changes at most once and
\* never back to running, in memory and in the database.
C4_ActivityStateLifecycle ==
    /\ []C4_StatesAreLegal
    /\ [][C4_CreatedRunning /\ C4_CompleteSetsState /\ C4_ChangesOnlyFromRunning]_vars

\* C4 witness: one activity has ended in error and another in complete, in
\* memory and in the database
C4_Witness ==
    /\ \E a \in Range(toolActivity), r \in Range(dbActivities) :
         a.state = "error" /\ r.state = "error"
    /\ \E a \in Range(toolActivity), r \in Range(dbActivities) :
         a.state = "complete" /\ r.state = "complete"

----------------------------------------------------------------------------
(* Properties of the chats router *)

\* C5: every stored sub-chat belongs to exactly one chat that currently exists
C5_SubChatBelongsToOneChat ==
    \A i \in 1..Len(dbSubChats) :
        Cardinality({k \in 1..Len(dbChats) : dbChats[k].id = dbSubChats[i].chatId}) = 1

\* C5 witness: a chat that had two sub-chats has been deleted, createSubChat
\* was last refused for a chat id that does not exist, and a sub-chat of
\* another chat is still stored
C5_Witness ==
    /\ subChatIdSeq = 3
    /\ Len(dbSubChats) = 1
    /\ Len(dbChats) = 1
    /\ lastRpc.proc = "chats.createSubChat"
    /\ "error" \in DOMAIN lastRpc

\* The text of a run-length encoded string, character by character
RECURSIVE Chars(_)
Chars(s) ==
    IF s = <<>> THEN <<>>
    ELSE [i \in 1..Head(s).n |-> Head(s).c] \o Chars(Tail(s))

IsSpace(ch) == ch = " " \/ ch = "\n"

\* The message without its leading and trailing whitespace
TrimmedChars(cs) ==
    LET keep == {i \in 1..Len(cs) : ~IsSpace(cs[i])} IN
    IF keep = {} THEN <<>> ELSE SubSeq(cs, Min(keep), Max(keep))

----------------------------------------------------------------------------
(* Properties of the credential lookup *)

HasToken ==
    /\ credential.row = "default"
    /\ credential.oauthToken.t = "string"
    /\ credential.oauthToken.s # <<>>

\* C7: getClaudeCodeToken never throws; it returns null without a credential
\* row, without a token in the row, and when the database or the decryption
\* fails; otherwise it returns the decrypted token, which is the base64
\* decoding of the stored value when secure storage is unavailable.
C7_TokenOrNull ==
    lastRpc.proc = "getClaudeCodeToken" =>
        LET out == lastRpc.outcome
            bytes == Base64Decode(credential.oauthToken.s)
            decryptFails == encryptionAvailable
                              /\ (lastRpc.osFails \/ bytes = <<>> \/ bytes[1] # 118)
        IN /\ ~out.threw
           /\ IF ~HasToken \/ lastRpc.dbThrows THEN out.value = JsNull
              ELSE IF decryptFails THEN out.value = JsNull
              ELSE /\ out.value.t = "string"
                   /\ ~encryptionAvailable =>
                        out.value.s = [i \in 1..Len(bytes) |->
                                          IF bytes[i] < 128 THEN bytes[i] ELSE 65533]
                   /\ encryptionAvailable => Len(out.value.s) = Len(bytes) - 1

\* C7 witness: a stored ciphertext was returned base64-decoded, not decrypted,
\* because secure storage is unavailable
C7_Witness ==
    /\ lastRpc.proc = "getClaudeCodeToken"
    /\ HasToken
    /\ ~encryptionAvailable
    /\ lastRpc.outcome.value.t = "string"
    /\ Len(lastRpc.outcome.value.s) = 3
    /\ lastRpc.outcome.value.s[1] = 118

----------------------------------------------------------------------------
(* generateCommitMessageWithSDK: timeout, missing token, empty message *)

Settled == commitPc \in {"returned", "thrown"}
TimerStarted == timeoutId.state # "none"

\* The timer is not pending once the function has returned or thrown
C8_TimerClearedOnExit == Settled => timeoutId.state # "armed"

\* The call does not run beyond 30 seconds after the timer was set unaborted
C8_NotRunningPastTimeout ==
    (TimerStarted /\ ~Settled) =>
        /\ timeoutId.state = "armed" => now <= timeoutId.setAt + 30000
        /\ now > timeoutId.setAt + 30000 => aborted

\* The controller is aborted only by the timer, 30 seconds after it was set,
\* and only while the call is in flight; it is never un-aborted
C8_AbortOnlyInFlight ==
    aborted' # aborted =>
        /\ aborted'
        /\ ~Settled /\ commitPc' = commitPc
        /\ timeoutId.state = "armed" /\ timeoutId'.state = "fired"
        /\ now = timeoutId.setAt + 30000

\* C8: the agent invocation is aborted through the abort controller when it
\* has not finished 30 seconds after the timer was started; the timer is
\* cleared on every path by which the function returns or throws after the
\* timer was started, so the abort never fires after the function has settled.
C8_TimeoutAbortsAndIsCleared ==
    /\ [](C8_TimerClearedOnExit /\ C8_NotRunningPastTimeout)
    /\ [][C8_AbortOnlyInFlight]_vars
    /\ (timeoutId.state = "armed" /\ now >= timeoutId.setAt + 30000)
           ~> (aborted \/ Settled)

\* C8 witness: the timer fired and aborted the invocation, the stream then
\* threw, and the function has settled with the abort in its error
C8_Witness ==
    /\ commitPc = "thrown"
    /\ aborted
    /\ timeoutId.state = "fired"
    /\ now = timeoutId.setAt + 30000
    /\ commitOutcome.message = <<"Claude Code process error: ", "The operation was aborted">>

\* C9: when no token is available, generateCommitMessageWithSDK throws
\* "Claude Code not connected. Please connect in Settings." without invoking
\* the agent SDK and without starting the timeout timer; it throws that
\* error in no other case.
C9_NotConnectedBeforeAnySdkCall ==
    commitPc # "idle" =>
        LET noToken == \/ claudeCodeToken.t = "null"
                       \/ (claudeCodeToken.t = "string" /\ Len(claudeCodeToken.s) = 0)
            notConnected ==
                /\ commitPc = "thrown"
                /\ commitOutcome =
                     [kind |-> "throw",
                      message |-> <<"Claude Code not connected. Please connect in Settings.">>]
        IN /\ noToken <=> notConnected
           /\ noToken => ~sdkInvoked /\ ~TimerStarted /\ now = 0

\* C9 witness: a credential row exists, its token decrypts to the empty
\* string, and the call has thrown
C9_Witness ==
    /\ credential.row = "default"
    /\ claudeCodeToken.t = "string"
    /\ Len(claudeCodeToken.s) = 0
    /\ commitPc = "thrown"

\* Some line of the text is a conventional-commit header that the extraction
\* accepts: after trimming it is not a preamble line and the pattern matches
HeaderExtractable(text) ==
    \E i \in 1..Len(SplitLines(text)) :
        LET line == TokTrim(SplitLines(text)[i])
        IN /\ line # <<>>
           /\ ToLowerCase(line[1]) \notin PreambleStarts
           /\ conventionalCommitRegex(line)

\* A returned message is not empty, and it was extracted from a header
C10_ReturnsNonEmpty ==
    commitPc = "returned" =>
        /\ commitOutcome.kind = "return"
        /\ Len(commitOutcome.value) > 0
        /\ HeaderExtractable(commitMessage)

\* A message of type error makes the function throw
C10_ErrorMessageThrows ==
    lastStreamMsg.type = "error" =>
        /\ commitPc = "thrown"
        /\ commitOutcome.kind = "throw"
        /\ SubSeq(commitOutcome.message, 1, 2)
             = <<"Claude Code process error: ", "Failed to generate commit message: ">>

\* When the stream ends without having failed and no header can be
\* extracted, the function throws the empty-message error
C10_NoHeaderThrows ==
    (commitPc = "streaming" /\ Settled' /\ ~HeaderExtractable(commitMessage)
        /\ streamCount' = streamCount) =>
        /\ commitPc' = "thrown"
        /\ \/ commitOutcome'.message[1] = "Claude returned empty commit message"
           \/ commitOutcome'.message[1] = "Claude Code process error: "

\* C10: generateCommitMessageWithSDK never returns an empty commit message:
\* when no conventional-commit header can be extracted from the collected
\* text it throws "Claude returned empty commit message", and when the
\* stream yields a message of type error it throws, whatever was collected.
C10_NeverReturnsEmptyMessage ==
    /\ [](C10_ReturnsNonEmpty /\ C10_ErrorMessageThrows)
    /\ [][C10_NoHeaderThrows]_vars

\* C10 witness: text without a header was collected, the stream ended, and
\* the function threw the empty-message error with the process output
C10_Witness ==
    /\ commitPc = "thrown"
    /\ commitMessage # <<>>
    /\ ~HeaderExtractable(commitMessage)
    /\ commitOutcome.message
         = <<"Claude returned empty commit message", "\n\nProcess output:\n", "warning">>

----------------------------------------------------------------------------
(* generateCommitMessageWithSDK: the format of the returned message *)

\* type(scope): description, the scope optional, the type compared without
\* regard to case
IsConventionalHeader(line) ==
    /\ Len(line) >= 3
    /\ ToLowerCase(line[1]) \in TypeWords
    /\ LET j == IF line[2] \in ScopeTokens THEN 3 ELSE 2
       IN line[j] = ":" /\ j < Len(line)

\* C11: the returned commit message has the conventional format: its first
\* line is a header type(scope): description with one of the eleven types,
\* optionally followed by one blank line and body lines that each start with
\* "-" or "*"; no preamble or explanatory line is part of the result.
C11_ConventionalFormat ==
    commitPc = "returned" =>
        LET lines == SplitLines(commitOutcome.value)
        IN /\ IsConventionalHeader(lines[1])
           /\ Len(lines) > 1 =>
                /\ Len(lines) >= 3
                /\ lines[2] = <<>>
                /\ \A k \in 3..Len(lines) :
                     lines[k] # <<>> /\ lines[k][1] \in {"-", "*"}
           /\ \A k \in 1..Len(lines) :
                lines[k] # <<>> =>
                    ToLowerCase(lines[k][1]) \notin
                        {"here is", "this commit", "the implementation"}

\* C11 failing input: the stream carried the one line "add fix: add", and the
\* function returned that line as the commit message
C11_Witness ==
    /\ commitPc = "returned"
    /\ commitMessage = <<"add", " ", "fix", ":", " ", "add">>
    /\ commitOutcome.value = <<"add", " ", "fix", ":", " ", "add">>

----------------------------------------------------------------------------
(* useNaggingSound: when the sound is played *)

\* Attention is needed and nagging is not muted
Nagging == (pendingQuestions \/ chatWaiting) /\ ~isMuted

NagIntervals == {t \in nagTimers : t.kind = "interval"}

\* No sound is played while attention is not needed or nagging is muted, a
\* step plays at most once, at most one interval exists, and every live timer
\* is one the hook set when the present nagging began
C12_QuietAndOneInterval ==
    /\ nagPlayed \in {0, 1}
    /\ nagPlayed = 1 => Nagging /\ lastPlayAt = now
    /\ Cardinality(NagIntervals) <= 1
    /\ ~Nagging => nagTimers = {}
    /\ \A t \in nagTimers :
         /\ t.id \in {intervalRef, timeoutRef}
         /\ t.id > nagTimerSeq - 2
         /\ t.kind = "timeout" => t.due = nagStartedAt + 600000

\* The sound is played at once when the condition begins
C12_PlayedWhenNaggingBegins ==
    (~Nagging /\ Nagging') =>
        /\ nagPlayed' = 1
        /\ lastPlayAt' = now'
        /\ nagStartedAt' = now'
        /\ now' = now

\* While the condition lasts, its beginning stays the same
C12_SameBeginning == (Nagging /\ Nagging') => nagStartedAt' = nagStartedAt

\* C12 as stated: while attention is needed and nagging is not muted, the
\* sound is played when the condition begins and then every 30 seconds; it
\* is not played otherwise, at most one interval exists and no timer of an
\* earlier episode stays active.
C12_NagsEveryThirtySeconds ==
    /\ C12_QuietAndOneInterval
    /\ Nagging =>
         /\ lastPlayAt >= nagStartedAt
         /\ (lastPlayAt - nagStartedAt) % 30000 = 0
         /\ now - lastPlayAt <= 30000

\* C12, amended: as C12, the sound being played every 30 seconds only until
\* 10 minutes after the condition began, when the interval is stopped.
C12_NagsEveryThirtySecondsForTenMinutes ==
    /\ [](/\ C12_QuietAndOneInterval
          /\ Nagging =>
               /\ lastPlayAt >= nagStartedAt
               /\ (lastPlayAt - nagStartedAt) % 30000 = 0
               /\ lastPlayAt <= nagStartedAt + 600000
               /\ now <= nagStartedAt + 600000 => now - lastPlayAt <= 30000
               /\ now < nagStartedAt + 600000 => Cardinality(NagIntervals) = 1
               /\ now > nagStartedAt + 600000 => nagTimers = {})
    /\ [][C12_PlayedWhenNaggingBegins /\ C12_SameBeginning]_vars

\* C12 witness: the user muted and unmuted the nagging, which then ran for
\* its 10 minutes and was stopped by the timeout
C12_Witness ==
    /\ Nagging
    /\ nagTimerSeq = 4
    /\ now > nagStartedAt + 600000
    /\ lastPlayAt >= nagStartedAt + 570000
    /\ nagTimers = {}

\* C13: while the same attention condition persists, no nag sound is played
\* more than 10 minutes after that condition began, whatever the user does
\* with the mute control in between.
C13_StopsTenMinutesAfterAttentionBegan ==
    (pendingQuestions \/ chatWaiting) => lastPlayAt <= attentionSince + 600000

\* C13 failing run: attention has been needed without a break, the user
\* muted and unmuted, and a sound was played later than 10 minutes after the
\* attention began
C13_Witness ==
    /\ pendingQuestions \/ chatWaiting
    /\ nagPlayed = 1
    /\ now > attentionSince + 600000
    /\ nagStartedAt > attentionSince

----------------------------------------------------------------------------
(* useToolNotifications: the notification settings *)

\* The step handles a tool-start event of the hook's sub-chat
HandlesToolStart ==
    /\ lastEvent' # lastEvent
    /\ lastEvent'.type = "tool-start"
    /\ "ignored" \notin DOMAIN lastEvent'

\* On a tool start the toast is shown exactly when the settings ask for it,
\* and the activity joins the feed whatever the settings
C14_ToastIffSettingsAllow ==
    HandlesToolStart =>
        LET wanted == /\ toastsEnabled
                      /\ \/ notificationMode = "always"
                         \/ notificationMode = "unfocused" /\ ~isWindowFocused
        IN /\ wanted => toasts' = Append(toasts, [toolCallId |-> lastEvent'.toolCallId,
                                                   toolName |-> toasts'[Len(toasts')].toolName])
           /\ ~wanted => toasts' = toasts
           /\ Len(toolActivity') = Len(toolActivity) + 1
           /\ toolActivity'[Len(toolActivity')].state = "running"
           /\ SubSeq(toolActivity', 1, Len(toolActivity)) = toolActivity

\* No other step shows a toast, and in mode "never" no step shows one
C14_NoOtherToast ==
    /\ ~HandlesToolStart => toasts' = toasts
    /\ notificationMode = "never" => toasts' = toasts

\* C14: on a tool start a toast is shown if and only if toasts are enabled
\* and the mode is "always", or the mode is "unfocused" and the window is not
\* focused; in mode "never" no toast is ever shown; the activity is added to
\* the activity feed in every case.
C14_ToastsRespectSettings == [][C14_ToastIffSettingsAllow /\ C14_NoOtherToast]_vars

\* C14 witness: of two tool starts one was toasted and one was not, and both
\* are in the feed; the mode is "unfocused" and the window is focused
C14_Witness ==
    /\ Len(toolActivity) = 2
    /\ Len(toasts) = 1
    /\ toasts[1].toolCallId = 1
    /\ notificationMode = "unfocused"
    /\ isWindowFocused
    /\ toastsEnabled

\* ---------------------------------------------------------------------
\* C15: list and listArchived partition the chats
\* ---------------------------------------------------------------------

ListedIds == RowIds(ChatsList(JsUndefined))

ArchivedIds == RowIds(ChatsListArchived(JsUndefined))

\* Every stored chat is in exactly one of the two results, no row is returned
\* twice, and list holds the chats that are not archived
C15_ExactlyOneList ==
    /\ ListedIds \cup ArchivedIds = RowIds(dbChats)
    /\ ListedIds \cap ArchivedIds = {}
    /\ Len(ChatsList(JsUndefined)) + Len(ChatsListArchived(JsUndefined)) = Len(dbChats)
    /\ \A i \in 1..Len(dbChats) :
          (dbChats[i].archivedAt = JsNull) <=> (dbChats[i].id \in ListedIds)

\* archive and archiveBatch move the named chats, and only them, to the
\* archived list; restore moves the named chat back to list; a finished
\* delete takes the chat out of both
C15_CallsMoveChats ==
    /\ lastRpc'.proc = "chats.archive" =>
          /\ ArchivedIds' = ArchivedIds \cup ({lastRpc'.id} \cap RowIds(dbChats))
          /\ ListedIds' = ListedIds \ {lastRpc'.id}
    /\ lastRpc'.proc = "chats.archiveBatch" =>
          /\ ArchivedIds' = ArchivedIds \cup (lastRpc'.chatIds \cap RowIds(dbChats))
          /\ ListedIds' = ListedIds \ lastRpc'.chatIds
    /\ lastRpc'.proc = "chats.restore" =>
          /\ ListedIds' = ListedIds \cup ({lastRpc'.id} \cap RowIds(dbChats))
          /\ ArchivedIds' = ArchivedIds \ {lastRpc'.id}
    /\ (lastRpc'.proc = "chats.delete" /\ "chatId" \in DOMAIN lastRpc') =>
          /\ ListedIds' = ListedIds \ {lastRpc'.chatId}
          /\ ArchivedIds' = ArchivedIds \ {lastRpc'.chatId}
    /\ (lastRpc'.proc = "chats.create" /\ "chatId" \in DOMAIN lastRpc') =>
          ArchivedIds' = ArchivedIds

\* C15: after any sequence of chats.create, archive, archiveBatch, restore
\* and delete calls every existing chat is returned by exactly one of
\* chats.list and chats.listArchived, list returning the chats that are not
\* archived; archive moves a chat to the archived list and restore moves it back
C15_ListsPartitionChats == []C15_ExactlyOneList /\ [][C15_CallsMoveChats]_vars

\* C15 witness: of two chats one was archived and restored and is in list
\* again, the other is in the archived list
C15_Witness ==
    /\ Len(dbChats) = 2
    /\ lastRpc.proc = "chats.restore"
    /\ lastRpc.id \in ListedIds
    /\ Cardinality(ArchivedIds) = 1

\* ---------------------------------------------------------------------
\* C16: chats.create for a project that does not exist
\* ---------------------------------------------------------------------

\* The step is a chats.create call that threw
CreateThrew == lastRpc'.proc = "chats.create" /\ "error" \in DOMAIN lastRpc'

\* A create that throws was given a projectId that matches no project, throws
\* "Project not found" and changes nothing; a step that inserts a chat or a
\* sub-chat or starts a worktree creation is for a project that exists
C16_UnknownProjectStep ==
    /\ CreateThrew =>
          /\ lastRpc'.error = "Project not found"
          /\ lastRpc'.projectId \notin dbProjects
          /\ UNCHANGED chatVars
    /\ Len(dbChats') > Len(dbChats) => dbChats'[Len(dbChats')].projectId \in dbProjects
    /\ \A call \in chatsAwaiting' \ chatsAwaiting :
          call.proc = "chats.create" => call.projectId \in dbProjects
    /\ (lastRpc'.proc = "chats.create" /\ ~CreateThrew /\ lastRpc' # lastRpc) =>
          \/ Len(dbSubChats') > Len(dbSubChats)
          \/ \E call \in chatsAwaiting : call.proc = "chats.create"

\* C16: chats.create called with a projectId that matches no project throws
\* "Project not found" and leaves the stored state unchanged: no chat, no
\* sub-chat and no worktree is created
C16_UnknownProjectChangesNothing == [][C16_UnknownProjectStep]_vars

\* C16 witness: with a chat and its sub-chat stored, a create for an unknown
\* project has thrown
C16_Witness ==
    /\ lastRpc.proc = "chats.create"
    /\ "error" \in DOMAIN lastRpc
    /\ lastRpc.projectId = "p9"
    /\ Len(dbChats) = 1
    /\ Len(dbSubChats) = 1

\* ---------------------------------------------------------------------
\* C17: what a successful chats.create creates, stores and returns
\* ---------------------------------------------------------------------

\* The step ends a chats.create call with a response
CreateReturned == lastRpc'.proc = "chats.create" /\ "chatId" \in DOMAIN lastRpc'

\* The step is the part of chats.create before createWorktreeForChat
CreateAwaits == lastRpc'.proc = "chats.create" /\ "awaiting" \in DOMAIN lastRpc'

\* The step resumes a create that was waiting for createWorktreeForChat
CreateResumed ==
    /\ CreateReturned
    /\ \E call \in chatsAwaiting :
          call.proc = "chats.create" /\ call.chatId = lastRpc'.chatId

\* The chat and sub-chat rows the step has inserted
InsertedChats == {r \in RowsById(dbChats', chatIdSeq') : chatIdSeq' # chatIdSeq}

InsertedSubChats == {dbSubChats'[i] : i \in Len(dbSubChats) + 1 .. Len(dbSubChats')}

\* A stored column holds a returned value; the response leaves out what the
\* table holds as null
StoredAs(column, returned) ==
    column = IF returned = JsUndefined THEN JsNull ELSE returned

\* One chat and one sub-chat of it are inserted by the call, before the
\* worktree step, and none after it
C17_OneChatOneSubChat ==
    /\ (CreateAwaits \/ (CreateReturned /\ ~CreateResumed)) =>
          /\ Len(dbChats') = Len(dbChats) + 1
          /\ Cardinality(InsertedChats) = 1
          /\ Cardinality(InsertedSubChats) = 1
          /\ \A sc \in InsertedSubChats : sc.chatId = chatIdSeq'
          /\ Cardinality(RowsById(dbSubChats', subChatIdSeq')) = 1
    /\ CreateResumed =>
          /\ Len(dbChats') = Len(dbChats)
          /\ dbSubChats' = dbSubChats
    /\ CreateReturned =>
          /\ Len(lastRpc'.subChats) = 1
          /\ lastRpc'.subChats[1].chatId = lastRpc'.chatId

\* The response carries the worktree's path, branch and baseBranch when the
\* worktree was created, else the project's path and no branch; the chat's
\* row, if the chat still exists, holds the same
C17_PathStoredAndReturned ==
    CreateReturned =>
      LET r == lastRpc'
          created == r.createWorktree # JsUndefined /\ r.createWorktree.success
                       /\ r.createWorktree.worktreePath # JsUndefined
      IN /\ r.worktreePath \notin {JsNull, JsUndefined}
         /\ IF created
            THEN /\ r.worktreePath = WorktreePath(r.chatId)
                 /\ r.branch = BranchOf(r.chatId)
                 /\ r.baseBranch = BaseBranchOf(r.chatId)
            ELSE /\ r.worktreePath = ProjectPath(r.projectId)
                 /\ r.branch = JsUndefined
                 /\ r.baseBranch = JsUndefined
         /\ \A row \in RowsById(dbChats', r.chatId) :
               /\ StoredAs(row.worktreePath, r.worktreePath)
               /\ StoredAs(row.branch, r.branch)
               /\ StoredAs(row.baseBranch, r.baseBranch)

\* Whatever createWorktreeForChat answers, the resumed create returns a
\* response and no error
C17_FailureDoesNotFail ==
    \A call \in chatsAwaiting \ chatsAwaiting' :
        call.proc = "chats.create" => CreateReturned /\ "error" \notin DOMAIN lastRpc'

RemovalsStarted ==
    {call \in chatsAwaiting' \ chatsAwaiting : call.proc = "chats.delete"}

\* The removeWorktree calls that have settled in the step
RemovalsSettled ==
    {call \in chatsAwaiting \ chatsAwaiting' : call.proc = "chats.delete"}

\* removeWorktree is invoked only for a chat whose row has a worktreePath and
\* a branch, with that worktree's path, never with the project's; a chat whose
\* row holds the project's path and no branch is deleted without it
C18_RemovalOnlyWithBranch ==
    /\ \A call \in RemovalsStarted :
          /\ \A row \in RowsById(dbChats, call.chatId) :
                row.worktreePath # JsNull /\ row.branch # JsNull
          /\ call.removeWorktree = WorktreePath(call.chatId)
          /\ \A p \in dbProjects : call.removeWorktree # ProjectPath(p)
    /\ (lastRpc'.proc = "chats.delete" /\ lastRpc' # lastRpc) =>
          \A row \in RowsById(dbChats, IF "chatId" \in DOMAIN lastRpc'
                                       THEN lastRpc'.chatId ELSE lastRpc'.awaiting) :
              row.branch = JsNull => RemovalsStarted = {}

\* The row is deleted when removeWorktree has settled, whatever it answered,
\* and only a worktree is ever removed
C18_RowDeletedAnyway ==
    /\ \A call \in RemovalsSettled :
          /\ call.chatId \notin RowIds(dbChats')
          /\ lastRpc' = [proc |-> "chats.delete", chatId |-> call.chatId,
                         removed |-> lastRpc'.removed]
    /\ worktrees' # worktrees /\ lastRpc'.proc = "chats.delete" =>
          \E call \in RemovalsSettled :
              worktrees' = worktrees \ {call.chatId} /\ lastRpc'.removed

PlanAwaitsApproval(messages) ==
    \E i \in 1..Len(messages) :
        /\ messages[i] # JsNull
        /\ messages[i].role = "assistant"
        /\ "parts" \in DOMAIN messages[i]
        /\ \E p \in 1..Len(messages[i].parts) :
              messages[i].parts[p].type = "tool-ExitPlanMode"
        /\ ~\E j \in (i + 1)..Len(messages) :
              /\ messages[j] # JsNull
              /\ messages[j].role = "user"
              /\ "parts" \in DOMAIN messages[j]
              /\ \E p \in 1..Len(messages[j].parts) :
                    /\ messages[j].parts[p].type = "text"
                    /\ \A q \in 1..(p - 1) : messages[j].parts[q].type # "text"
                    /\ TrimmedChars(messages[j].parts[p].text)
                          \in {<<"Implement plan">>, <<"IMPLEMENT PLAN">>,
                               <<"implement plan">>}

\* The sub-chats the query has to return for an input
ExpectedApprovals(input) ==
    {[subChatId |-> dbSubChats[i].id, chatId |-> dbSubChats[i].chatId] :
        i \in {k \in 1..Len(dbSubChats) :
                 /\ \E c \in 1..Len(dbChats) :
                       /\ dbChats[c].id = dbSubChats[k].chatId
                       /\ dbChats[c].archivedAt = JsNull
                 /\ input.given => dbSubChats[k].id \in input.openSubChatIds
                 /\ dbSubChats[k].messages # JsNull
                 /\ dbSubChats[k].messages.valid
                 /\ PlanAwaitsApproval(dbSubChats[k].messages.value)}}

C19_ResultIsExpected ==
    lastRpc'.proc = "chats.getPendingPlanApprovals" =>
        /\ {lastRpc'.result[k] : k \in 1..Len(lastRpc'.result)}
              = ExpectedApprovals(lastRpc'.input)
        /\ Cardinality(ExpectedApprovals(lastRpc'.input)) = Len(lastRpc'.result)

\* C19: getPendingPlanApprovals returns a sub-chat of a chat that is not
\* archived if and only if its messages contain an assistant message with a
\* tool-ExitPlanMode part not followed by a user message "Implement plan";
\* sub-chats of archived chats, sub-chats outside openSubChatIds and sub-chats
\* whose messages are not valid JSON are not returned, and an invalid
\* sub-chat does not change the result for the others
C19_PendingPlanApprovals == [][C19_ResultIsExpected]_vars

\* C19 witness: the first sub-chat's plan is approved in capitals and with
\* spaces, the second sub-chat's messages are not JSON, the third waits for
\* approval but is not among the open sub-chats, and the query returned nothing
C19_Witness ==
    /\ lastRpc.proc = "chats.getPendingPlanApprovals"
    /\ lastRpc.input = [given |-> TRUE, openSubChatIds |-> {1, 2}]
    /\ lastRpc.result = <<>>
    /\ Len(dbSubChats) = 3
    /\ dbSubChats[1].messages =
          JsonStringify(<<[role |-> "assistant",
                           parts |-> <<TextPart(<<"ok">>), ExitPlanPart>>],
                          [role |-> "user",
                           parts |-> <<TextPart(<<" ", "IMPLEMENT PLAN", "\n">>)>>]>>)
    /\ dbSubChats[2].messages = InvalidJson
    /\ dbSubChats[3].messages = JsonStringify(WaitingPlan)
    /\ \A c \in 1..Len(dbChats) : dbChats[c].archivedAt = JsNull

\* ---------------------------------------------------------------------
\* C20: the persisted state of a tool activity
\* ---------------------------------------------------------------------

\* The number of rows of a list that are in a state
InState(rows, state) == Cardinality({i \in 1..Len(rows) : rows[i].state = state})

\* Every activities.create and activities.update call has been served and
\* its callback has run
AllCallsSettled == rpcInFlight = {}

\* C20: once all pending database calls have settled, the persisted record
\* of every tool whose tool-start and tool-complete were handled has the
\* terminal state of the in-memory activity and is not left running. Each
\* in-memory activity then has one persisted record, so the two lists have
\* as many activities in each state
C20_PersistedStateMatchesMemory ==
    AllCallsSettled =>
        /\ Len(dbActivities) = Len(toolActivity)
        /\ \A state \in {"running", "complete", "error"} :
              InState(dbActivities, state) = InState(toolActivity, state)

\* C20 witness: a tool has completed after activities.create had resolved,
\* all calls have settled and its persisted record is complete too
C20_Witness ==
    /\ AllCallsSettled
    /\ Len(toolActivity) = 1
    /\ Len(dbActivities) = 1
    /\ toolActivity[1].state = "complete"
    /\ dbActivities[1].state = "complete"

\* ---------------------------------------------------------------------
\* C21: the pin toggle and its revert
\* ---------------------------------------------------------------------

\* C21: for any interleaving of pin toggles on an activity and of successes
\* and failures of their togglePin requests, once all outstanding requests
\* have settled the activity's in-memory isPinned equals its persisted isPinned
C21_PinMatchesPersisted ==
    (PinCalls = {} /\ ClearCalls = {}) =>
        \A i \in 1..Len(toolActivity) :
            \A k \in RowsWithId(dbActivities, toolActivity[i].id) :
                toolActivity[i].isPinned = dbActivities[k].isPinned

\* C21 witness: a failed togglePin call has been reverted, nothing is
\* outstanding, and the activity is as pinned in memory as it is persisted
C21_Witness ==
    /\ lastEvent.type = "togglePin-settled"
    /\ ~lastEvent.ok
    /\ rpcInFlight = {}
    /\ Len(toolActivity) = 2 /\ Len(dbActivities) = 2
    /\ \A i \in 1..2 : toolActivity[i].isPinned = dbActivities[i].isPinned

\* ---------------------------------------------------------------------
\* C23: clearing the feed
\* ---------------------------------------------------------------------

\* The clear calls whose await ends in the step
ClearsSettled == {res \in rpcInFlight \ rpcInFlight' : res.kind = "clearRes"}

\* The in-memory list is emptied only by the end of a clear call that has
\* succeeded, after the table was emptied; the end of a failed call leaves the
\* list as it was, and the end of a successful one leaves the table and the
\* list empty
C23_ClearStep ==
    /\ (toolActivity # <<>> /\ toolActivity' = <<>>) =>
          \E res \in ClearsSettled : res.ok /\ dbActivities = <<>>
    /\ \A res \in ClearsSettled :
          IF res.ok
          THEN toolActivity' = <<>> /\ feedItems' = <<>> /\ dbActivities' = <<>>
          ELSE toolActivity' = toolActivity /\ feedItems' = feedItems
    /\ (lastRpc'.proc = "clear" /\ lastRpc' # lastRpc) =>
          dbActivities' = <<>> /\ toolActivity' = toolActivity

NoTwoAlike(contexts, key) ==
    \A i, j \in 1..Len(contexts) :
        (contexts[i].text = contexts[j].text /\ contexts[i][key] = contexts[j][key])
            => i = j

\* C22: after any sequence of addTextContext, removeTextContext and
\* clearTextContexts calls the list never holds two contexts with the same
\* trimmed text and the same sourceMessageId, nor two diff contexts with the
\* same trimmed text and filePath, also when two add calls are made before
\* the component has rendered again; a text that is empty after trimming is
\* never added
C22_NoDuplicateContexts ==
    /\ NoTwoAlike(textContexts, "sourceMessageId")
    /\ NoTwoAlike(diffTextContexts, "filePath")
    /\ \A i \in 1..Len(textContexts) : textContexts[i].text \notin {<<>>, <<" ">>}
    /\ \A i \in 1..Len(diffTextContexts) : diffTextContexts[i].text \notin {<<>>, <<" ">>}

\* C22 witness: with the text "a" of message m1 in the rendered list, a
\* second add of the same text with spaces around it was refused
C22_Witness ==
    /\ lastCtxCall = [op |-> "addTextContext", added |-> FALSE, why |-> "duplicate"]
    /\ Len(textContexts) = 1
    /\ textContexts[1].text = <<"a">>
    /\ textUpdates = <<>>

====
